---- MODULE Spec2Model ----
(***************************************************************************)
(* Haplotype threading of whatshap (polyploid phasing).                    *)
(*                                                                         *)
(*   kclustifier.py  subset_clusters and its helpers: coverage map,        *)
(*                   local consensus, genotype-conforming tuples,          *)
(*                   backtrace, cut positions, consensus blocks,           *)
(*                   haplotype strings                                     *)
(*   polyphase.py    run_polyphase: aggregation of the block-wise results  *)
(*                                                                         *)
(* Python lists are TLA+ sequences; list index i (0-based) is element i+1. *)
(* Cluster ids, read ids and variant indices keep their 0-based values.    *)
(* Costs are exact rationals, kept as integer multiples of 1/CostScale.    *)
(***************************************************************************)
EXTENDS Integers, Sequences, FiniteSets, TLC

(***************************************************************************)
(* Bounds of the model                                                     *)
(***************************************************************************)
NumPositions == 3      \* genome positions a read may carry
NumReads == 3          \* reads in the read set of subset_clusters
MaxPloidy == 3         \* largest ploidy of the tuple enumeration
MaxClusters == 3       \* clusters covering the position of the tuple enumeration
PolyVars == 4          \* variant positions of the run_polyphase aggregation
PolyClusters == 2      \* clusters of a block of the aggregation, at most
PolyReads == 2         \* reads of a block of the aggregation, at most
StartCols == 3         \* columns of the scoring tables of the backtrace on its own
ReduceClusters == 10   \* clusters of the coverage map reduction on its own
SliceReads == 3        \* reads handed to slice_reads
SliceMaxCoverage == 2  \* largest max_coverage of slice_reads
MaxQuality == 2        \* largest base quality of a variant of a read pair
BlockVars == 3         \* largest num_vars of calc_cluster_blocks
BlockClusters == 2     \* largest number of clusters of calc_cluster_blocks

(***************************************************************************)
(* Program constants                                                       *)
(***************************************************************************)
TopClusters == 8       \* clusters kept per position
INT_MAX == 1000000     \* "no finite cost" marker of the scoring table
SwitchCost == 1        \* cost of one slot changing its cluster
MinReadLen == 2        \* reads cover at least two variants

(***************************************************************************)
(* Generic helpers                                                         *)
(***************************************************************************)
Range(s) == {s[i] : i \in DOMAIN s}

At(s, i) == s[i + 1]

Min(S) == CHOOSE x \in S : \A y \in S : x <= y

Max(S) == CHOOSE x \in S : \A y \in S : x >= y

RECURSIVE SortedSeq(_)
SortedSeq(S) == IF S = {} THEN <<>>
                ELSE LET m == Min(S) IN <<m>> \o SortedSeq(S \ {m})

RECURSIVE SeqSum(_)
SeqSum(s) == IF s = <<>> THEN 0 ELSE Head(s) + SeqSum(Tail(s))

RECURSIVE Concat(_)
Concat(ss) == IF ss = <<>> THEN <<>> ELSE Head(ss) \o Concat(Tail(ss))

RECURSIVE Factorial(_)
Factorial(n) == IF n <= 1 THEN 1 ELSE n * Factorial(n - 1)

\* list.reverse()
Reverse(s) == [i \in 1..Len(s) |-> s[Len(s) + 1 - i]]

\* Python slice s[a:b] for 0 <= a, b
Slice(s, a, b) == LET hi == IF b > Len(s) THEN Len(s) ELSE b
                  IN  IF a >= hi THEN <<>> ELSE [i \in 1..(hi - a) |-> s[a + i]]

\* tuple comparison of Python: lexicographic
LexLess(a, b) ==
    \/ \E i \in 1..Len(a) : i <= Len(b) /\ a[i] < b[i] /\ \A j \in 1..(i - 1) : a[j] = b[j]
    \/ Len(a) < Len(b) /\ \A j \in 1..Len(a) : a[j] = b[j]

RECURSIVE SortLex(_)
SortLex(S) == IF S = {} THEN <<>>
              ELSE LET m == CHOOSE x \in S : \A y \in S : y = x \/ LexLess(x, y)
                   IN  <<m>> \o SortLex(S \ {m})

Count(t, v) == Cardinality({i \in DOMAIN t : t[i] = v})

SameMultiset(a, b) == /\ Len(a) = Len(b)
                      /\ \A v \in Range(a) \cup Range(b) : Count(a, v) = Count(b, v)

(***************************************************************************)
(* Position index                                                          *)
(***************************************************************************)
\* ReadSet.get_positions(): the sorted distinct positions of all reads
get_positions(rs) ==
    SortedSeq(UNION {{rs[r][i].position : i \in DOMAIN rs[r]} : r \in DOMAIN rs})

\* index[position] = dense id 0..num_vars-1
PosIndex(rs, position) ==
    LET rev_index == get_positions(rs)
    IN  (CHOOSE i \in DOMAIN rev_index : rev_index[i] = position) - 1

NumVars(rs) == Len(get_positions(rs))

\* the genome positions of the variants of a read slice
PositionsOfSlice(read_slice) ==
    {read_slice.variants[v].position : v \in DOMAIN read_slice.variants}

\* [index[var.position] for var in readset[read]]
ReadIndices(rs, read) ==
    [i \in DOMAIN At(rs, read) |-> PosIndex(rs, At(rs, read)[i].position)]

(***************************************************************************)
(* Coverage map, spans, relative coverage                                  *)
(***************************************************************************)
ClusterCovers(rs, cl, c_id, p) ==
    \E k \in DOMAIN At(cl, c_id) : p \in Range(ReadIndices(rs, At(cl, c_id)[k]))

\* cov_map[p] before the reduction: ids of the clusters covering p, ascending
CovMapRaw(rs, cl, p) ==
    SortedSeq({c_id \in 0..(Len(cl) - 1) : ClusterCovers(rs, cl, c_id, p)})

\* sorted(list, key = len(clustering[x]), reverse = True): stable, so that
\* clusters of equal size keep their order
RECURSIVE SortBySizeDesc(_, _)
SortBySizeDesc(cl, list) ==
    IF list = <<>> THEN <<>>
    ELSE LET big  == Max({Len(At(cl, list[i])) : i \in DOMAIN list})
             IsBig(c) == Len(At(cl, c)) = big
             NotBig(c) == Len(At(cl, c)) # big
         IN  SelectSeq(list, IsBig) \o SortBySizeDesc(cl, SelectSeq(list, NotBig))

\* mutant of ReduceCovMap: the first clusters by id, whatever their size
ReduceCovMap_byid(cl, list) == Slice(list, 0, TopClusters)

ReduceCovMap(cl, list) == Slice(SortBySizeDesc(cl, list), 0, TopClusters)

CovMap(rs, cl) ==
    [i \in 1..NumVars(rs) |-> ReduceCovMap(cl, CovMapRaw(rs, cl, i - 1))]

\* positions[c_id] = (start, end): smallest first and largest last index
ClusterSpan(rs, cl, c_id) ==
    LET firsts == {ReadIndices(rs, At(cl, c_id)[k])[1] : k \in DOMAIN At(cl, c_id)}
        lasts  == {LET ri == ReadIndices(rs, At(cl, c_id)[k]) IN ri[Len(ri)] :
                       k \in DOMAIN At(cl, c_id)}
    IN  <<Min(firsts), Max(lasts)>>

AbsCoverage(rs, cl, c_id, p) ==
    LET c == At(cl, c_id)
    IN  SeqSum([k \in DOMAIN c |->
                   Cardinality({i \in DOMAIN ReadIndices(rs, c[k]) :
                                    ReadIndices(rs, c[k])[i] = p})])

CoverageSum(rs, cl, p) ==
    SeqSum([c \in 1..Len(cl) |-> AbsCoverage(rs, cl, c - 1, p)])

CostScale(rs) == Factorial(Len(rs))

\* coverage[c_id][p], as a multiple of 1/CostScale
RelCoverage(rs, cl, c_id, p) ==
    IF CoverageSum(rs, cl, p) # 0
    THEN (CostScale(rs) * AbsCoverage(rs, cl, c_id, p)) \div CoverageSum(rs, cl, p)
    ELSE 0

Coverage(rs, cl) ==
    [c \in 1..Len(cl) |-> [i \in 1..NumVars(rs) |-> RelCoverage(rs, cl, c - 1, i - 1)]]

(***************************************************************************)
(* Local consensus                                                         *)
(***************************************************************************)
\* number of reads of cluster c carrying allele 1 (one = TRUE) or another
\* allele (one = FALSE) at position index p
AlleleCount(rs, cl, c_id, p, one) ==
    LET c == At(cl, c_id)
    IN  SeqSum([k \in DOMAIN c |->
                   Cardinality({i \in DOMAIN At(rs, c[k]) :
                       /\ ReadIndices(rs, c[k])[i] = p
                       /\ (At(rs, c[k])[i].allele = 1) = one})])

\* mutant of max_allele: equal counts give allele 1
max_allele_ties_one(allele0, allele1) == IF allele1 >= allele0 THEN 1 ELSE 0

max_allele(allele0, allele1) == IF allele1 > allele0 THEN 1 ELSE 0

\* cluster_consensus[pos]: a dict over the clusters of cov_map[pos]
get_cluster_consensus_local(rs, cl, cm) ==
    [i \in 1..Len(cm) |->
        [c \in Range(cm[i]) |->
            max_allele(AlleleCount(rs, cl, c, i - 1, FALSE),
                       AlleleCount(rs, cl, c, i - 1, TRUE))]]

(***************************************************************************)
(* Genotype-conforming tuples                                              *)
(***************************************************************************)
\* sorted(list(it.combinations_with_replacement(c_ids, ploidy)))
CombinationsWithReplacement(c_ids, k) ==
    SortLex({t \in [1..k -> Range(c_ids)] : \A i \in 1..(k - 1) : t[i] <= t[i + 1]})

\* cons is the consensus dict of one position
compute_tuple_genotype(cons, tup) == SeqSum([i \in DOMAIN tup |-> cons[tup[i]]])

compute_tuple_genotype_soft(cons, tup, geno) ==
    LET genotype == compute_tuple_genotype(cons, tup)
    IN  IF geno - genotype > genotype - geno THEN geno - genotype ELSE genotype - geno

\* mutant of HardTuples: "<=" instead of "=="
HardTuples_atmost(cons, c_tuples, geno) ==
    LET Fits(tup) == compute_tuple_genotype(cons, tup) <= geno
    IN  SelectSeq(c_tuples, Fits)

HardTuples(cons, c_tuples, geno) ==
    LET Fits(tup) == compute_tuple_genotype(cons, tup) = geno
    IN  SelectSeq(c_tuples, Fits)

SoftTuples(cons, c_tuples, geno) ==
    LET Near(tup) == compute_tuple_genotype_soft(cons, tup, geno) = 1
    IN  SelectSeq(c_tuples, Near)

\* geno_map[pos] from cov_map[pos], consensus[pos] and genotypes[pos]
GenoTuples(cov, cons, k, geno) ==
    LET c_ids == SortedSeq(Range(cov))
        c_tuples == CombinationsWithReplacement(c_ids, k)
        geno_tuples == HardTuples(cons, c_tuples, geno)
    IN  IF Len(geno_tuples) = 0 THEN SoftTuples(cons, c_tuples, geno)
        ELSE geno_tuples

(***************************************************************************)
(* Threading dynamic program (clustering_DP of whatshap.core)              *)
(***************************************************************************)
\* mutant of DistinctPermutations: descending order
DistinctPermutations_desc(x) ==
    Reverse(SortLex({t \in [1..Len(x) -> Range(x)] : SameMultiset(t, x)}))

\* sorted(list(set(it.permutations(x)))): the distinct orderings of x
DistinctPermutations(x) == SortLex({t \in [1..Len(x) -> Range(x)] : SameMultiset(t, x)})

\* list(it.chain.from_iterable(sorted(list(set(it.permutations(x)))) for x in tups))
ConfTuples(tups) == Concat([i \in DOMAIN tups |-> DistinctPermutations(tups[i])])

\* sum over the slots of 1 - cov_rel[perm[h]][p]
col_cost(cov, scale, p, perm) ==
    SeqSum([h \in DOMAIN perm |-> scale - At(At(cov, perm[h]), p)])

\* switch_cost times the number of slots whose cluster changes
tr_cost(scale, a, b) ==
    SwitchCost * scale * Cardinality({h \in DOMAIN b : a[h] # b[h]})

\* one column of score[p] = (cost, prev_index) from the column before it
DPColumn(cov, scale, p, prevcol, prevperms, perms) ==
    LET inf == INT_MAX * scale
        Cand(j, t) == IF prevcol[j][1] >= inf THEN inf
                      ELSE prevcol[j][1] + tr_cost(scale, prevperms[j], perms[t])
        Best(t) == Min({Cand(j, t) : j \in DOMAIN prevperms})
    IN  [t \in DOMAIN perms |->
            IF prevperms = <<>> \/ Best(t) >= inf THEN <<inf, -1>>
            ELSE <<col_cost(cov, scale, p, perms[t]) + Best(t),
                   Min({j \in DOMAIN prevperms : Cand(j, t) = Best(t)}) - 1>>]

DPFirstColumn(cov, scale, perms) ==
    [t \in DOMAIN perms |-> <<col_cost(cov, scale, 0, perms[t]), -1>>]

RECURSIVE DPTable(_, _, _, _)
DPTable(cov, scale, gm, n) ==
    IF n = 0 THEN <<>>
    ELSE IF n = 1 THEN <<DPFirstColumn(cov, scale, ConfTuples(gm[1]))>>
    ELSE LET before == DPTable(cov, scale, gm, n - 1)
         IN  Append(before,
                    DPColumn(cov, scale, n - 1, before[n - 1],
                             ConfTuples(gm[n - 1]), ConfTuples(gm[n])))

clustering_DP(num_vars, cov, scale, gm) == DPTable(cov, scale, gm, num_vars)

(***************************************************************************)
(* Backtrace                                                               *)
(***************************************************************************)
\* Python list indexing: a negative index counts from the end
PyValid(s, i) == -Len(s) <= i /\ i < Len(s)

PyAt(s, i) == IF i >= 0 THEN s[i + 1] ELSE s[Len(s) + i + 1]

\* <<column>> when a column is returned, <<>> when scoring[last_col] raises
\* IndexError
RECURSIVE find_backtracing_start(_, _, _)
find_backtracing_start(sc, num_vars, minimum) ==
    LET last_col == num_vars - 1
    IN  IF ~PyValid(sc, last_col) THEN <<>>
        ELSE IF \E i \in DOMAIN PyAt(sc, last_col) : PyAt(sc, last_col)[i][1] < minimum
             THEN <<last_col>>
             ELSE find_backtracing_start(sc, last_col - 1, minimum)

\* mutant of MinIndex: max instead of min
MinIndex_max(col) ==
    LET worst == Max({col[i][1] : i \in DOMAIN col})
    IN  Max({i \in DOMAIN col : col[i][1] = worst}) - 1

\* min((val, idx) for (idx, val) in enumerate(...))[1]
MinIndex(col) ==
    LET best == Min({col[i][1] : i \in DOMAIN col})
    IN  Min({i \in DOMAIN col : col[i][1] = best}) - 1

\* mutant of GenoMapGet: the tuples of the column after p
GenoMapGet_shifted(gm, p) == IF p + 1 >= 0 /\ p + 1 < Len(gm) THEN gm[p + 2] ELSE <<>>

\* geno_map is a defaultdict(list): a missing key reads as the empty list
GenoMapGet(gm, p) == IF p >= 0 /\ p < Len(gm) THEN gm[p + 1] ELSE <<>>

\* the loop "for i in range(start_col, 0, -1)": the tuples appended to path,
\* in append order; ok = FALSE when an index is out of range
RECURSIVE WalkBack(_, _, _, _)
WalkBack(sc, gm, i, last_min_idx) ==
    IF i <= 0 THEN [ok |-> TRUE, path |-> <<>>]
    ELSE IF ~PyValid(At(sc, i), last_min_idx) THEN [ok |-> FALSE, path |-> <<>>]
    ELSE LET pred == PyAt(At(sc, i), last_min_idx)[2]
             conf_tups == ConfTuples(GenoMapGet(gm, i - 1))
         IN  IF ~PyValid(conf_tups, pred) THEN [ok |-> FALSE, path |-> <<>>]
             ELSE LET rest == WalkBack(sc, gm, i - 1, pred)
                  IN  [ok |-> rest.ok, path |-> <<PyAt(conf_tups, pred)>> \o rest.path]

\* lines 182-205: ok = FALSE when an exception ends subset_clusters
Backtrace(sc, gm, num_vars, minimum) ==
    LET found == find_backtracing_start(sc, num_vars, minimum)
        failed == [ok |-> FALSE, start_col |-> 0, path |-> <<>>]
    IN  IF found = <<>> THEN failed
        ELSE LET start_col == found[1]
                 column == PyAt(sc, start_col)
                 last_min_idx == MinIndex(column)
                 conf_clusters_tuples == ConfTuples(GenoMapGet(gm, start_col))
             IN  IF ~PyValid(conf_clusters_tuples, last_min_idx) THEN failed
                 ELSE LET walk == WalkBack(sc, gm, start_col, last_min_idx)
                      IN  [ok |-> walk.ok, start_col |-> start_col,
                           path |-> Reverse(<<PyAt(conf_clusters_tuples, last_min_idx)>>
                                            \o walk.path)]

(***************************************************************************)
(* Cut positions, cluster blocks, consensus blocks, haplotype strings      *)
(***************************************************************************)
\* mutant of dissim: the last slot is not compared
dissim_butlast(pth, k, i) ==
    Cardinality({j \in 1..(k - 1) : At(pth, i)[j] # At(pth, i + 1)[j]})

dissim(pth, k, i) == Cardinality({j \in 1..k : At(pth, i)[j] # At(pth, i + 1)[j]})

RECURSIVE CutLoop(_, _, _)
CutLoop(pth, k, i) ==
    IF i >= Len(pth) - 1 THEN <<>>
    ELSE (IF dissim(pth, k, i) >= 1 THEN <<i>> ELSE <<>>) \o CutLoop(pth, k, i + 1)

CutPositions(pth, k) == CutLoop(pth, k, 0)

\* haps[i] = [tup[i] for tup in path]
Haps(pth, k) == [h \in 1..k |-> [p \in DOMAIN pth |-> pth[p][h]]]

\* [hap[old_pos:cut_pos] for hap in haps] per cut, then [hap[last_cut:]]
ClusterBlocks(hps, cuts) ==
    LET old_pos(b) == IF b = 1 THEN 0 ELSE cuts[b - 1]
        last_cut == IF Len(cuts) = 0 THEN 0 ELSE cuts[Len(cuts)]
    IN  [b \in 1..(Len(cuts) + 1) |->
            IF b <= Len(cuts)
            THEN [h \in DOMAIN hps |-> Slice(hps[h], old_pos(b), cuts[b])]
            ELSE [h \in DOMAIN hps |-> Slice(hps[h], last_cut, Len(hps[h]))]]

Undefined == -1        \* allele written where no cluster is assigned
NoCluster == -1        \* None in a cluster block

\* mutant of BlockOffset: no offset
BlockOffset_zero(cuts, b) == 0

\* offset = cut_positions[i-1] if i > 0 else 0
BlockOffset(cuts, b) == IF b > 1 THEN cuts[b - 1] ELSE 0

\* consensus[offset+pos][clust] can be evaluated
ConsensusDefined(cons, col, clust) ==
    /\ PyValid(cons, col)
    /\ clust \in DOMAIN PyAt(cons, col)

BlocksDefined(blocks, cuts, cons) ==
    \A b \in DOMAIN blocks : \A h \in DOMAIN blocks[b] : \A pos \in DOMAIN blocks[b][h] :
        \/ blocks[b][h][pos] = NoCluster
        \/ ConsensusDefined(cons, BlockOffset(cuts, b) + pos - 1, blocks[b][h][pos])

calc_consensus_blocks(blocks, cuts, cons) ==
    [b \in DOMAIN blocks |-> [h \in DOMAIN blocks[b] |-> [pos \in DOMAIN blocks[b][h] |->
        IF blocks[b][h][pos] # NoCluster
        THEN PyAt(cons, BlockOffset(cuts, b) + pos - 1)[blocks[b][h][pos]]
        ELSE Undefined]]]

AlleleString(allele) == IF allele = Undefined THEN "n"
                        ELSE IF allele = 0 THEN "0" ELSE "1"

\* haplotypes[i]: the characters of all blocks of haplotype i, joined
Haplotypes(blocks, k) ==
    [h \in 1..k |->
        Concat([b \in DOMAIN blocks |->
                   [pos \in DOMAIN blocks[b][h] |-> AlleleString(blocks[b][h][pos])]])]

(***************************************************************************)
(* State                                                                   *)
(***************************************************************************)
VARIABLES
    pc,               \* position in subset_clusters / run_polyphase
    readset,          \* reads: lists of (position, allele) variants
    clustering,       \* list of clusters, each a list of read ids
    ploidy,
    genotypes,        \* genotypes[pos]: the required allele sum
    cov_map,          \* cov_map[pos]: clusters kept at pos
    positions,        \* positions[c_id] = (start, end)
    coverage,         \* coverage[c_id][pos]: relative coverage
    consensus,        \* consensus[pos][c_id]: majority allele
    geno_map,         \* geno_map[pos]: genotype-conforming tuples
    scoring,          \* scoring[pos][t] = (cost, predecessor index)
    start_col,        \* column the backtrace starts in
    path,             \* one ploidy-tuple of cluster ids per position
    cut_positions,    \* indices i with path[i] # path[i+1]
    cluster_blocks,   \* blocks of cluster ids, overwritten by the alleles
    haplotypes,       \* one string (list of characters) per haplotype
    num_vars,         \* number of variant positions
    block_starts,     \* run_polyphase: first variant index of every block
    blockwise_paths,
    blockwise_haplotypes,
    blockwise_cut_positions,
    threading,        \* run_polyphase: the aggregated path
    block_readsets,   \* run_polyphase: the reads of every block, by name
    blockwise_clustering,
    counter,          \* "No cluster with fitting genotype" of subset_clusters
    components,       \* genome position -> first position of its phase block
    accessible_positions,
    reads,            \* slice_reads: the read set to be sliced
    max_coverage,
    shuffled_indices, \* slice_reads: the read indices still to be processed
    slices,           \* slice_reads: one set of read indices per slice
    slice_coverages,  \* slice_reads: one coverage list per slice
    slice_id,
    skipped_reads,
    sliced_reads,     \* the read set slice_reads returns
    read1, read2,     \* _merge_pair: the two ends of a read pair
    i1, i2,
    result,           \* _merge_pair: the merged read
    refine,           \* refinement loop of run_polyphase
    runs_remaining,
    last_inc_count,
    new_inc_count,
    block_id,         \* run_polyphase: the block that the block loop processes
    copynumbers,      \* calc_cluster_blocks: copynumbers[c][pos]
    block_haps,       \* calc_cluster_blocks: haps[h][pos], NoCluster for None
    block_pos,        \* calc_cluster_blocks: the position processed next
    increase_disallowed,
    decrease_disallowed,
    single_hap_cuts

vars == <<pc, readset, clustering, ploidy, genotypes, cov_map, positions, coverage,
          consensus, geno_map, scoring, start_col, path, cut_positions,
          cluster_blocks, haplotypes, num_vars, block_starts, blockwise_paths,
          blockwise_haplotypes, blockwise_cut_positions, threading,
          block_readsets, blockwise_clustering, counter, components,
          accessible_positions, reads, max_coverage, shuffled_indices, slices,
          slice_coverages, slice_id, skipped_reads, sliced_reads, read1, read2,
          i1, i2, result, refine, runs_remaining, last_inc_count, new_inc_count,
          block_id, copynumbers, block_haps, block_pos, increase_disallowed,
          decrease_disallowed, single_hap_cuts>>

\* the state of run_polyphase, untouched by subset_clusters
polyvars == <<block_starts, blockwise_paths, blockwise_haplotypes,
              blockwise_cut_positions, threading, block_readsets,
              blockwise_clustering>>

\* the state of the component map
compvars == <<components, accessible_positions>>

\* the state of slice_reads
slicevars == <<reads, max_coverage, shuffled_indices, slices, slice_coverages,
               slice_id, skipped_reads, sliced_reads>>

\* the state of _merge_pair
mergevars == <<read1, read2, i1, i2, result>>

\* the state of the block loop and of its refinement loop
refinevars == <<refine, runs_remaining, last_inc_count, new_inc_count, block_id>>

\* the state of calc_cluster_blocks
blockvars == <<copynumbers, block_haps, block_pos, increase_disallowed,
               decrease_disallowed, single_hap_cuts>>

\* the state of the threading: subset_clusters and run_polyphase
threadvars == <<readset, clustering, genotypes, cov_map, positions, coverage,
                consensus, geno_map, scoring, start_col, path, haplotypes, counter,
                polyvars>>

CompIdle == components = <<>> /\ accessible_positions = <<>>

SliceIdle ==
    /\ reads = <<>>
    /\ max_coverage = 0
    /\ shuffled_indices = <<>>
    /\ slices = <<>>
    /\ slice_coverages = <<>>
    /\ slice_id = 0
    /\ skipped_reads = 0
    /\ sliced_reads = <<>>

MergeIdle == read1 = <<>> /\ read2 = <<>> /\ i1 = 0 /\ i2 = 0 /\ result = <<>>

RefineIdle ==
    /\ refine = FALSE
    /\ runs_remaining = 0
    /\ last_inc_count = 0
    /\ new_inc_count = 0
    /\ block_id = 0

BlockIdle ==
    /\ copynumbers = <<>>
    /\ block_haps = <<>>
    /\ block_pos = 0
    /\ increase_disallowed = {}
    /\ decrease_disallowed = {}
    /\ single_hap_cuts = FALSE

ThreadIdle ==
    /\ readset = <<>>
    /\ clustering = <<>>
    /\ genotypes = <<>>
    /\ cov_map = <<>>
    /\ positions = <<>>
    /\ coverage = <<>>
    /\ consensus = <<>>
    /\ geno_map = <<>>
    /\ scoring = <<>>
    /\ start_col = 0
    /\ path = <<>>
    /\ haplotypes = <<>>
    /\ counter = 0
    /\ block_starts = <<>>
    /\ blockwise_paths = <<>>
    /\ blockwise_haplotypes = <<>>
    /\ blockwise_cut_positions = <<>>
    /\ threading = <<>>
    /\ block_readsets = <<>>
    /\ blockwise_clustering = <<>>

(***************************************************************************)
(* Inputs of subset_clusters                                               *)
(***************************************************************************)
GenomePositions == {10 * i : i \in 1..NumPositions}

\* the reads over the position set S, one per choice of alleles
ReadsOver(S) ==
    {[i \in 1..Cardinality(S) |->
         [position |-> SortedSeq(S)[i], allele |-> a[SortedSeq(S)[i]]]] :
     a \in [S -> {0, 1}]}

ReadPool ==
    UNION {ReadsOver(S) : S \in {T \in SUBSET GenomePositions : Cardinality(T) >= MinReadLen}}

ReadCode(read) == [i \in DOMAIN read |-> 2 * read[i].position + read[i].allele]

\* read sets as readset.sort() leaves them: ordered by first position
ReadSets ==
    {rs \in [1..NumReads -> ReadPool] :
        \A i \in 1..(NumReads - 1) :
            rs[i] = rs[i + 1] \/ LexLess(ReadCode(rs[i]), ReadCode(rs[i + 1]))}

\* clusterings: disjoint non-empty groups of read ids, possibly leaving reads out;
\* f[r] = 0 leaves read r out, f[r] = k puts it into the k-th cluster
Clusterings(n) ==
    {[k \in 1..Max({f[r] : r \in 1..n} \cup {0}) |-> SortedSeq({r - 1 : r \in {q \in 1..n : f[q] = k}})] :
     f \in {g \in [1..n -> 0..n] :
               \A r \in 1..n : g[r] <= 1 + Max({g[q] : q \in 1..(r - 1)} \cup {0})}}

Ploidies == {2}

Init ==
    /\ pc = "coverage"
    /\ readset \in ReadSets
    /\ clustering \in Clusterings(NumReads)
    /\ ploidy \in Ploidies
    /\ genotypes \in [1..NumVars(readset) -> 1..(ploidy - 1)]
    /\ cov_map = <<>>
    /\ positions = <<>>
    /\ coverage = <<>>
    /\ consensus = <<>>
    /\ geno_map = <<>>
    /\ scoring = <<>>
    /\ start_col = 0
    /\ path = <<>>
    /\ cut_positions = <<>>
    /\ cluster_blocks = <<>>
    /\ haplotypes = <<>>
    /\ num_vars = NumVars(readset)
    /\ block_starts = <<>>
    /\ blockwise_paths = <<>>
    /\ blockwise_haplotypes = <<>>
    /\ blockwise_cut_positions = <<>>
    /\ threading = <<>>
    /\ block_readsets = <<>>
    /\ blockwise_clustering = <<>>
    /\ counter = 0
    /\ CompIdle /\ SliceIdle /\ MergeIdle /\ RefineIdle /\ BlockIdle

(***************************************************************************)
(* subset_clusters, step by step                                           *)
(***************************************************************************)
\* lines 100-160: cov_map with its reduction, positions, relative coverage;
\* coverage[0] of line 159 raises IndexError for an empty clustering
BuildCoverage ==
    /\ pc = "coverage"
    /\ cov_map' = CovMap(readset, clustering)
    /\ positions' = [c \in 1..Len(clustering) |-> ClusterSpan(readset, clustering, c - 1)]
    /\ coverage' = Coverage(readset, clustering)
    /\ pc' = IF Len(clustering) = 0 THEN "error" ELSE "consensus"
    /\ UNCHANGED <<counter, num_vars, polyvars, readset, clustering, ploidy, genotypes, consensus, geno_map, scoring,
                   start_col, path, cut_positions, cluster_blocks, haplotypes>>
    /\ UNCHANGED <<compvars, slicevars, mergevars, refinevars, blockvars>>

\* line 164
ComputeConsensus ==
    /\ pc = "consensus"
    /\ consensus' = get_cluster_consensus_local(readset, clustering, cov_map)
    /\ pc' = "geno_map"
    /\ UNCHANGED <<counter, num_vars, polyvars, readset, clustering, ploidy, genotypes, cov_map, positions, coverage,
                   geno_map, scoring, start_col, path, cut_positions, cluster_blocks,
                   haplotypes>>
    /\ UNCHANGED <<compvars, slicevars, mergevars, refinevars, blockvars>>

\* lines 167-177: counter is set to 0 at line 168 and printed at line 177;
\* nothing in between assigns it
ComputeGenoMap ==
    /\ pc = "geno_map"
    /\ counter' = 0
    /\ geno_map' = [i \in 1..num_vars |->
                       GenoTuples(cov_map[i], consensus[i], ploidy, genotypes[i])]
    /\ pc' = "dp"
    /\ UNCHANGED <<num_vars, polyvars, readset, clustering, ploidy, genotypes, cov_map, positions, coverage,
                   consensus, scoring, start_col, path, cut_positions, cluster_blocks,
                   haplotypes>>
    /\ UNCHANGED <<compvars, slicevars, mergevars, refinevars, blockvars>>

\* line 180
RunDP ==
    /\ pc = "dp"
    /\ scoring' = clustering_DP(num_vars, coverage, CostScale(readset), geno_map)
    /\ pc' = "backtrace"
    /\ UNCHANGED <<counter, num_vars, polyvars, readset, clustering, ploidy, genotypes, cov_map, positions, coverage,
                   consensus, geno_map, start_col, path, cut_positions, cluster_blocks,
                   haplotypes>>
    /\ UNCHANGED <<compvars, slicevars, mergevars, refinevars, blockvars>>

\* lines 182-205
RunBacktrace ==
    /\ pc = "backtrace"
    /\ LET bt == Backtrace(scoring, geno_map, num_vars, INT_MAX * CostScale(readset))
       IN  /\ pc' = IF bt.ok THEN "cuts" ELSE "error"
           /\ start_col' = bt.start_col
           /\ path' = bt.path
    /\ UNCHANGED <<counter, num_vars, polyvars, readset, clustering, ploidy, genotypes, cov_map, positions, coverage,
                   consensus, geno_map, scoring, cut_positions, cluster_blocks,
                   haplotypes>>
    /\ UNCHANGED <<compvars, slicevars, mergevars, refinevars, blockvars>>

\* lines 207-223
DetermineCuts ==
    /\ pc = "cuts"
    /\ cut_positions' = CutPositions(path, ploidy)
    /\ pc' = "blocks"
    /\ UNCHANGED <<counter, num_vars, polyvars, readset, clustering, ploidy, genotypes, cov_map, positions, coverage,
                   consensus, geno_map, scoring, start_col, path, cluster_blocks,
                   haplotypes>>
    /\ UNCHANGED <<compvars, slicevars, mergevars, refinevars, blockvars>>

\* lines 243-286: consensus_blocks is the same list object as cluster_blocks,
\* so cluster_blocks ends up holding the alleles
BuildHaplotypes ==
    /\ pc = "blocks"
    /\ LET blocks == ClusterBlocks(Haps(path, ploidy), cut_positions)
       IN  IF BlocksDefined(blocks, cut_positions, consensus)
           THEN /\ cluster_blocks' = calc_consensus_blocks(blocks, cut_positions, consensus)
                /\ haplotypes' = Haplotypes(cluster_blocks', ploidy)
                /\ pc' = "done"
           ELSE /\ cluster_blocks' = blocks
                /\ haplotypes' = haplotypes
                /\ pc' = "error"
    /\ UNCHANGED <<counter, num_vars, polyvars, readset, clustering, ploidy, genotypes, cov_map, positions, coverage,
                   consensus, geno_map, scoring, start_col, path, cut_positions>>
    /\ UNCHANGED <<compvars, slicevars, mergevars, refinevars, blockvars>>

Next ==
    \/ BuildCoverage
    \/ ComputeConsensus
    \/ ComputeGenoMap
    \/ RunDP
    \/ RunBacktrace
    \/ DetermineCuts
    \/ BuildHaplotypes

Spec == Init /\ [][Next]_vars

(***************************************************************************)
(* The tuple enumeration of one position on its own: lines 167-177 applied *)
(* to every covering list, consensus and genotype of a single position     *)
(***************************************************************************)
CoveringLists ==
    UNION {{SortedSeq(S), Reverse(SortedSeq(S))} : S \in SUBSET (0..(MaxClusters - 1))}

InitTuples ==
    /\ pc = "geno_map"
    /\ ploidy \in 2..MaxPloidy
    /\ num_vars = 1
    /\ \E cov \in CoveringLists :
          /\ cov_map = <<cov>>
          /\ consensus \in {<<c>> : c \in [Range(cov) -> {0, 1}]}
    /\ genotypes \in [1..1 -> 1..(ploidy - 1)]
    /\ readset = <<>>
    /\ clustering = <<>>
    /\ positions = <<>>
    /\ coverage = <<>>
    /\ geno_map = <<>>
    /\ scoring = <<>>
    /\ start_col = 0
    /\ path = <<>>
    /\ cut_positions = <<>>
    /\ cluster_blocks = <<>>
    /\ haplotypes = <<>>
    /\ block_starts = <<>>
    /\ blockwise_paths = <<>>
    /\ blockwise_haplotypes = <<>>
    /\ blockwise_cut_positions = <<>>
    /\ threading = <<>>
    /\ block_readsets = <<>>
    /\ blockwise_clustering = <<>>
    /\ counter = 0
    /\ CompIdle /\ SliceIdle /\ MergeIdle /\ RefineIdle /\ BlockIdle

NextTuples == ComputeGenoMap

SpecTuples == InitTuples /\ [][NextTuples]_vars

(***************************************************************************)
(* The coverage map on its own: lines 104-126 applied to clusterings with  *)
(* more clusters than are kept per position                                *)
(***************************************************************************)
\* a read over two neighbouring positions, every allele 0
ReduceRead(first) ==
    <<[position |-> 10 * first, allele |-> 0], [position |-> 10 * (first + 1), allele |-> 0]>>

\* 2n reads: reads 2c and 2c+1 lie over positions 1 and 2 when c < k and
\* over positions 2 and 3 otherwise
ReduceReadSet(n, k) ==
    [r \in 1..(2 * n) |-> ReduceRead(IF (r - 1) \div 2 < k THEN 1 ELSE 2)]

\* cluster c holds read 2c and, when its size is 2, read 2c+1
ReduceClustering(n, sizes) ==
    [c \in 1..n |-> IF sizes[c] = 1 THEN <<2 * (c - 1)>>
                     ELSE <<2 * (c - 1), 2 * (c - 1) + 1>>]

InitReduce ==
    /\ pc = "cov_map"
    /\ ploidy = 2
    /\ \E n \in (TopClusters - 1)..ReduceClusters : \E k \in 0..n :
       \E sizes \in [1..n -> 1..2] :
          /\ readset = ReduceReadSet(n, k)
          /\ clustering = ReduceClustering(n, sizes)
    /\ num_vars = NumVars(readset)
    /\ genotypes = <<>>
    /\ cov_map = <<>>
    /\ positions = <<>>
    /\ coverage = <<>>
    /\ consensus = <<>>
    /\ geno_map = <<>>
    /\ scoring = <<>>
    /\ start_col = 0
    /\ path = <<>>
    /\ cut_positions = <<>>
    /\ cluster_blocks = <<>>
    /\ haplotypes = <<>>
    /\ block_starts = <<>>
    /\ blockwise_paths = <<>>
    /\ blockwise_haplotypes = <<>>
    /\ blockwise_cut_positions = <<>>
    /\ threading = <<>>
    /\ block_readsets = <<>>
    /\ blockwise_clustering = <<>>
    /\ counter = 0
    /\ CompIdle /\ SliceIdle /\ MergeIdle /\ RefineIdle /\ BlockIdle

\* lines 104-126: the coverage map and its reduction
BuildCovMap ==
    /\ pc = "cov_map"
    /\ cov_map' = CovMap(readset, clustering)
    /\ pc' = "positions"
    /\ UNCHANGED <<counter, num_vars, polyvars, readset, clustering, ploidy, genotypes,
                   positions, coverage, consensus, geno_map, scoring, start_col, path,
                   cut_positions, cluster_blocks, haplotypes>>
    /\ UNCHANGED <<compvars, slicevars, mergevars, refinevars, blockvars>>

NextReduce == BuildCovMap

SpecReduce == InitReduce /\ [][NextReduce]_vars

(***************************************************************************)
(* The backtrace on its own: lines 182-223 applied to every scoring table  *)
(* of up to StartCols columns whose entries fit the tuple table            *)
(***************************************************************************)
\* geno_map[p] of a column: no tuple, one tuple with one ordering, one tuple
\* with two orderings
StartTuples == {<<>>, <<(<<0, 0>>)>>, <<(<<0, 1>>)>>}

\* costs of an entry: two finite costs and the "no finite cost" marker
StartCosts == {1, 2, INT_MAX}

\* the columns that fit column p of the tuple table gm: one (cost, predecessor)
\* entry per ordering, the predecessor an index of the column before
StartColumns(gm, p) ==
    LET before == IF p = 1 THEN 0 ELSE Len(ConfTuples(gm[p - 1]))
        preds == IF before = 0 THEN {-1} ELSE 0..(before - 1)
    IN  [1..Len(ConfTuples(gm[p])) -> StartCosts \X preds]

RECURSIVE StartTables(_, _)
StartTables(gm, n) ==
    IF n = 0 THEN {<<>>}
    ELSE {Append(t, col) : t \in StartTables(gm, n - 1), col \in StartColumns(gm, n)}

InitStart ==
    /\ pc = "backtrace"
    /\ ploidy = 2
    /\ num_vars \in 1..StartCols
    /\ geno_map \in [1..num_vars -> StartTuples]
    /\ scoring \in StartTables(geno_map, num_vars)
    /\ readset = <<>>
    /\ clustering = <<>>
    /\ genotypes = <<>>
    /\ cov_map = <<>>
    /\ positions = <<>>
    /\ coverage = <<>>
    /\ consensus = <<>>
    /\ start_col = 0
    /\ path = <<>>
    /\ cut_positions = <<>>
    /\ cluster_blocks = <<>>
    /\ haplotypes = <<>>
    /\ block_starts = <<>>
    /\ blockwise_paths = <<>>
    /\ blockwise_haplotypes = <<>>
    /\ blockwise_cut_positions = <<>>
    /\ threading = <<>>
    /\ block_readsets = <<>>
    /\ blockwise_clustering = <<>>
    /\ counter = 0
    /\ CompIdle /\ SliceIdle /\ MergeIdle /\ RefineIdle /\ BlockIdle

NextStart == RunBacktrace \/ DetermineCuts

SpecStart == InitStart /\ [][NextStart]_vars

(***************************************************************************)
(* run_polyphase: block-wise threading and aggregation                     *)
(***************************************************************************)
\* compute_linkage_based_block_starts: block 0 starts at variant 0
BlockStarts(n) == {SortedSeq(S \cup {0}) : S \in SUBSET (1..(n - 1))}

ext_block_starts == block_starts \o <<num_vars>>

BlockSize(b) == ext_block_starts[b + 1] - ext_block_starts[b]

\* lines 371-373
AggregateHaplotypes(bhaps, k) ==
    [h \in 1..k |-> Concat([b \in DOMAIN bhaps |-> bhaps[b][h]])]

\* mutant of AggregateCutPositions: block_starts[i] is not added
AggregateCutPositions_nooffset(bcuts, starts) ==
    Concat([b \in DOMAIN starts |-> bcuts[b]])

\* lines 375-378
AggregateCutPositions(bcuts, starts) ==
    Concat([b \in DOMAIN starts |-> [c \in DOMAIN bcuts[b] |-> bcuts[b][c] + starts[b]]])

\* the value of an offset that grows by Len(lists[i]) after block i, when
\* block b (1-based) is processed
OffsetBefore(lists, b) == SeqSum([i \in 1..(b - 1) |-> Len(lists[i])])

\* lines 356-361: read_id_offset grows by len(block_readsets[i])
AggregateClustering(bclust, breads) ==
    Concat([b \in DOMAIN bclust |->
               [c \in DOMAIN bclust[b] |->
                   [k \in DOMAIN bclust[b][c] |-> bclust[b][c][k] + OffsetBefore(breads, b)]]])

\* mutant of AggregateThreading: c_id_offset is not added
AggregateThreading_nooffset(bpaths, bclust) ==
    Concat([b \in DOMAIN bpaths |-> bpaths[b]])

\* lines 363-368: c_id_offset grows by len(blockwise_clustering[i])
AggregateThreading(bpaths, bclust) ==
    Concat([b \in DOMAIN bpaths |->
               [p \in DOMAIN bpaths[b] |->
                   [h \in DOMAIN bpaths[b][p] |->
                       bpaths[b][p][h] + OffsetBefore(bclust, b)]]])

\* the reads of a block, named by their index in the block's read set
BlockReadSets == {[i \in 1..n |-> i - 1] : n \in 1..PolyReads}

\* the clusterings the cluster editing may return for n reads
BlockClusterings(n) ==
    {cl \in Clusterings(n) : Len(cl) >= 1 /\ Len(cl) <= PolyClusters}

\* the consensus of a block with len columns: at every column the clusters
\* with an even id carry one allele and the clusters with an odd id the other
BlockConsensus(len) ==
    {[p \in 1..len |-> [c \in 0..(PolyClusters - 1) |-> (base[p] + c) % 2]] :
     base \in [1..len -> {0, 1}]}

InitPoly ==
    /\ pc = "thread_block"
    /\ ploidy \in Ploidies
    /\ num_vars = PolyVars
    /\ block_starts \in BlockStarts(num_vars)
    /\ blockwise_paths = <<>>
    /\ blockwise_haplotypes = <<>>
    /\ blockwise_cut_positions = <<>>
    /\ threading = <<>>
    /\ block_readsets \in [1..Len(block_starts) -> BlockReadSets]
    /\ blockwise_clustering = <<>>
    /\ counter = 0
    /\ CompIdle /\ SliceIdle /\ MergeIdle /\ RefineIdle /\ BlockIdle
    /\ readset = <<>>
    /\ clustering = <<>>
    /\ genotypes = <<>>
    /\ cov_map = <<>>
    /\ positions = <<>>
    /\ coverage = <<>>
    /\ consensus = <<>>
    /\ geno_map = <<>>
    /\ scoring = <<>>
    /\ start_col = 0
    /\ path = <<>>
    /\ cut_positions = <<>>
    /\ cluster_blocks = <<>>
    /\ haplotypes = <<>>

\* lines 277-353, one round of the loop: subset_clusters threads the next block.
\* The path is any sequence of tuples over the clusters of the block, from
\* column 0 to the column the backtrace started in.
ThreadBlock ==
    /\ pc = "thread_block"
    /\ Len(blockwise_paths) < Len(block_starts)
    /\ \E cl \in BlockClusterings(Len(block_readsets[Len(blockwise_paths) + 1])) :
       \E len \in 1..BlockSize(Len(blockwise_paths) + 1) :
       \E pth \in [1..len -> [1..ploidy -> 0..(Len(cl) - 1)]] :
       \E cons \in BlockConsensus(len) :
          LET cuts == CutPositions(pth, ploidy)
              blocks == calc_consensus_blocks(ClusterBlocks(Haps(pth, ploidy), cuts),
                                              cuts, cons)
              haps == Haplotypes(blocks, ploidy)
          IN  /\ clustering' = cl
              /\ path' = pth
              /\ consensus' = cons
              /\ cut_positions' = cuts
              /\ haplotypes' = haps
              /\ blockwise_paths' = Append(blockwise_paths, pth)
              /\ blockwise_haplotypes' = Append(blockwise_haplotypes, haps)
              /\ blockwise_cut_positions' = Append(blockwise_cut_positions, cuts)
              /\ blockwise_clustering' = Append(blockwise_clustering, cl)
    /\ UNCHANGED <<pc, readset, ploidy, genotypes, cov_map, positions,
                   coverage, geno_map, scoring, start_col, cluster_blocks, num_vars,
                   block_starts, threading, block_readsets, counter>>
    /\ UNCHANGED <<compvars, slicevars, mergevars, refinevars, blockvars>>

\* lines 356-378
Aggregate ==
    /\ pc = "thread_block"
    /\ Len(blockwise_paths) = Len(block_starts)
    /\ clustering' = AggregateClustering(blockwise_clustering, block_readsets)
    /\ threading' = AggregateThreading(blockwise_paths, blockwise_clustering)
    /\ haplotypes' = AggregateHaplotypes(blockwise_haplotypes, ploidy)
    /\ cut_positions' = AggregateCutPositions(blockwise_cut_positions, block_starts)
    /\ pc' = "aggregated"
    /\ UNCHANGED <<readset, ploidy, genotypes, cov_map, positions, coverage,
                   consensus, geno_map, scoring, start_col, path, cluster_blocks,
                   num_vars, block_starts, blockwise_paths, blockwise_haplotypes,
                   blockwise_cut_positions, block_readsets, blockwise_clustering,
                   counter>>
    /\ UNCHANGED <<compvars, slicevars, mergevars, refinevars, blockvars>>

\* overall_components[key] = value
PutComponent(comp, key, value) ==
    [x \in DOMAIN comp \cup {key} |-> IF x = key THEN value ELSE comp[x]]

\* lines 388-390: for pos in range(pos, stop), the two keys of the position
RECURSIVE ComponentRange(_, _, _, _, _)
ComponentRange(comp, acc, p, stop, first) ==
    IF p >= stop THEN comp
    ELSE ComponentRange(PutComponent(PutComponent(comp, At(acc, p), At(acc, first)),
                                     At(acc, p) + 1, At(acc, first)),
                        acc, p + 1, stop, first)

\* lines 386-390: for i, cut_pos in enumerate(cut_positions)
RECURSIVE ComponentLoop(_, _, _, _, _)
ComponentLoop(comp, acc, cuts, ext_cuts, i) ==
    IF i >= Len(cuts) THEN comp
    ELSE ComponentLoop(ComponentRange(comp, acc, At(ext_cuts, i), At(ext_cuts, i + 1),
                                      At(ext_cuts, i)),
                       acc, cuts, ext_cuts, i + 1)

\* lines 383-390
OverallComponents(cuts, n, acc) ==
    ComponentLoop(<<>>, acc, cuts, cuts \o <<n>>, 0)

\* the sorted genome positions of the variants
PolyPositions(n) == [i \in 1..n |-> 10 * i]

\* lines 380-392
BuildComponents ==
    /\ pc = "aggregated"
    /\ accessible_positions' = PolyPositions(num_vars)
    /\ components' = OverallComponents(cut_positions, num_vars, accessible_positions')
    /\ pc' = "components"
    /\ UNCHANGED <<threadvars, ploidy, num_vars, cut_positions, cluster_blocks,
                   slicevars, mergevars, refinevars, blockvars>>

NextPoly == ThreadBlock \/ Aggregate \/ BuildComponents

SpecPoly == InitPoly /\ [][NextPoly]_vars

(***************************************************************************)
(* polyphase.py: distribution of the reads over the block read sets        *)
(* A read slice is a record of its name and its variants; the name of an   *)
(* input read is <<i>>, its index, and str(block) + "_" + name is          *)
(* <<block, i>>.                                                           *)
(***************************************************************************)
\* mutant of VarToBlock: the first variant of a block counts to the block before
VarToBlock_late(starts, var) ==
    Max({0} \cup {i \in 0..(Len(starts) - 1) : At(starts, i) < var})

\* lines 242-246: var_to_block[var]
VarToBlock(starts, var) ==
    Max({i \in 0..(Len(starts) - 1) : At(starts, i) <= var})

\* block_readsets[block].add(read_slice)
AddToBlock(brs, block, read_slice) ==
    [brs EXCEPT ![block + 1] = Append(@, read_slice)]

\* lines 262-269: the loop over the variants of a read that spans blocks;
\* the result is the pair of block_readsets and the current slice
RECURSIVE SplitVariants(_, _, _, _, _, _, _)
SplitVariants(brs, rs, starts, i, v, current_block, read_slice) ==
    IF v > Len(At(rs, i))
    THEN AddToBlock(brs, current_block, read_slice)
    ELSE LET variant == At(rs, i)[v]
             block == VarToBlock(starts, PosIndex(rs, variant.position))
         IN  IF block # current_block
             THEN SplitVariants(AddToBlock(brs, current_block, read_slice), rs, starts, i,
                                v + 1, block,
                                [name |-> <<block, i>>, variants |-> <<variant>>])
             ELSE SplitVariants(brs, rs, starts, i, v + 1, current_block,
                                [read_slice EXCEPT !.variants = Append(@, variant)])

\* lines 252-269: one round of the loop over the reads
SplitRead(brs, rs, starts, i) ==
    LET read == At(rs, i)
        start == VarToBlock(starts, PosIndex(rs, read[1].position))
        end == VarToBlock(starts, PosIndex(rs, read[Len(read)].position))
    IN  IF start = end
        THEN AddToBlock(brs, start, [name |-> <<i>>, variants |-> read])
        ELSE SplitVariants(brs, rs, starts, i, 1, start,
                           [name |-> <<i>>, variants |-> <<>>])

\* lines 252-269: for i, read in enumerate(readset)
RECURSIVE SplitLoop(_, _, _, _)
SplitLoop(brs, rs, starts, i) ==
    IF i >= Len(rs) THEN brs
    ELSE SplitLoop(SplitRead(brs, rs, starts, i), rs, starts, i + 1)

\* block_readset.get_positions()
BlockPositions(block_readset) ==
    UNION {PositionsOfSlice(block_readset[r]) : r \in DOMAIN block_readset}

InitSplit ==
    /\ pc = "split_reads"
    /\ readset \in ReadSets
    /\ ploidy \in Ploidies
    /\ num_vars = NumVars(readset)
    /\ block_starts \in BlockStarts(num_vars)
    /\ block_readsets = <<>>
    /\ blockwise_paths = <<>>
    /\ blockwise_haplotypes = <<>>
    /\ blockwise_cut_positions = <<>>
    /\ threading = <<>>
    /\ blockwise_clustering = <<>>
    /\ counter = 0
    /\ CompIdle /\ SliceIdle /\ MergeIdle /\ RefineIdle /\ BlockIdle
    /\ clustering = <<>>
    /\ genotypes = <<>>
    /\ cov_map = <<>>
    /\ positions = <<>>
    /\ coverage = <<>>
    /\ consensus = <<>>
    /\ geno_map = <<>>
    /\ scoring = <<>>
    /\ start_col = 0
    /\ path = <<>>
    /\ cut_positions = <<>>
    /\ cluster_blocks = <<>>
    /\ haplotypes = <<>>

\* lines 242-270
SplitReads ==
    /\ pc = "split_reads"
    /\ block_readsets' = SplitLoop([b \in 1..Len(block_starts) |-> <<>>], readset,
                                   block_starts, 0)
    /\ pc' = "blocks_split"
    /\ UNCHANGED <<readset, clustering, ploidy, genotypes, cov_map, positions, coverage,
                   consensus, geno_map, scoring, start_col, path, cut_positions,
                   cluster_blocks, haplotypes, num_vars, block_starts, blockwise_paths,
                   blockwise_haplotypes, blockwise_cut_positions, threading,
                   blockwise_clustering, counter>>
    /\ UNCHANGED <<compvars, slicevars, mergevars, refinevars, blockvars>>

\* lines 277-279: the assertion on the block that the loop has reached
CheckBlock ==
    /\ pc = "blocks_split"
    /\ block_id < Len(block_readsets)
    /\ IF Cardinality(BlockPositions(block_readsets[block_id + 1])) = BlockSize(block_id + 1)
       THEN /\ block_id' = block_id + 1
            /\ pc' = pc
       ELSE /\ block_id' = block_id
            /\ pc' = "error"
    /\ UNCHANGED <<readset, clustering, ploidy, genotypes, cov_map, positions, coverage,
                   consensus, geno_map, scoring, start_col, path, cut_positions,
                   cluster_blocks, haplotypes, num_vars, block_starts, blockwise_paths,
                   blockwise_haplotypes, blockwise_cut_positions, threading,
                   block_readsets, blockwise_clustering, counter>>
    /\ UNCHANGED <<refine, runs_remaining, last_inc_count, new_inc_count>>
    /\ UNCHANGED <<compvars, slicevars, mergevars, blockvars>>

NextSplit == SplitReads \/ CheckBlock

SpecSplit == InitSplit /\ [][NextSplit]_vars

(***************************************************************************)
(* polyphase.py: the refinement loop of a block                            *)
(***************************************************************************)
MaxRuns == 5

InitRefine ==
    /\ pc = "refine_start"
    /\ ploidy \in Ploidies
    /\ num_vars = PolyVars
    /\ block_starts \in BlockStarts(num_vars)
    /\ block_readsets \in [1..Len(block_starts) -> BlockReadSets]
    /\ block_id \in 0..(Len(block_starts) - 1)
    /\ clustering \in BlockClusterings(Len(block_readsets[block_id + 1]))
    /\ refine = FALSE
    /\ runs_remaining = 0
    /\ last_inc_count = 0
    /\ new_inc_count = 0
    /\ blockwise_paths = <<>>
    /\ blockwise_haplotypes = <<>>
    /\ blockwise_cut_positions = <<>>
    /\ threading = <<>>
    /\ blockwise_clustering = <<>>
    /\ counter = 0
    /\ CompIdle /\ SliceIdle /\ MergeIdle /\ BlockIdle
    /\ readset = <<>>
    /\ genotypes = <<>>
    /\ cov_map = <<>>
    /\ positions = <<>>
    /\ coverage = <<>>
    /\ consensus = <<>>
    /\ geno_map = <<>>
    /\ scoring = <<>>
    /\ start_col = 0
    /\ path = <<>>
    /\ cut_positions = <<>>
    /\ cluster_blocks = <<>>
    /\ haplotypes = <<>>

\* lines 316-318
StartRefine ==
    /\ pc = "refine_start"
    /\ last_inc_count' = Len(clustering) * BlockSize(block_id + 1)
    /\ runs_remaining' = MaxRuns
    /\ refine' = TRUE
    /\ pc' = "refine_loop"
    /\ UNCHANGED <<new_inc_count, block_id>>
    /\ UNCHANGED <<threadvars, ploidy, num_vars, cut_positions, cluster_blocks,
                   compvars, slicevars, mergevars, blockvars>>

\* lines 319-333: one round of the while loop; find_inconsistencies returns
\* some count up to the worst case, and a round with 0 < new_inc_count <
\* last_inc_count solves the cluster editing again
RefineRound ==
    /\ pc = "refine_loop"
    /\ refine /\ runs_remaining > 0
    /\ refine' = FALSE
    /\ runs_remaining' = runs_remaining - 1
    /\ \E inc \in 0..last_inc_count :
          /\ new_inc_count' = inc
          /\ IF 0 < inc /\ inc < last_inc_count
             THEN clustering' \in BlockClusterings(Len(block_readsets[block_id + 1]))
             ELSE clustering' = clustering
    /\ UNCHANGED <<pc, last_inc_count, block_id>>
    /\ UNCHANGED <<readset, genotypes, cov_map, positions, coverage, consensus, geno_map,
                   scoring, start_col, path, haplotypes, counter, polyvars>>
    /\ UNCHANGED <<ploidy, num_vars, cut_positions, cluster_blocks,
                   compvars, slicevars, mergevars, blockvars>>

\* line 319: the loop condition is false
EndRefine ==
    /\ pc = "refine_loop"
    /\ ~(refine /\ runs_remaining > 0)
    /\ pc' = "refined"
    /\ UNCHANGED refinevars
    /\ UNCHANGED <<threadvars, ploidy, num_vars, cut_positions, cluster_blocks,
                   compvars, slicevars, mergevars, blockvars>>

NextRefine == StartRefine \/ RefineRound \/ EndRefine

SpecRefine == InitRefine /\ [][NextRefine]_vars

(***************************************************************************)
(* kclustifier.py: calc_cluster_blocks                                     *)
(***************************************************************************)
\* copynumbers[c][pos]
CopyNumber(cn, c, p) == At(At(cn, c), p)

\* lines 627-632: increasing[pos]
Increasing(cn, p) ==
    IF p = 0 THEN {c \in 0..(Len(cn) - 1) : CopyNumber(cn, c, 0) > 0}
    ELSE {c \in 0..(Len(cn) - 1) : CopyNumber(cn, c, p - 1) < CopyNumber(cn, c, p)}

\* lines 627-632: decreasing[pos]
Decreasing(cn, p) ==
    IF p = 0 THEN {}
    ELSE {c \in 0..(Len(cn) - 1) : CopyNumber(cn, c, p - 1) > CopyNumber(cn, c, p)}

\* haps[h][pos] = c
SetHap(hps, h, p, c) == [hps EXCEPT ![h + 1][p + 1] = c]

\* lines 646-649: the clusters of position 0 in slot order
FirstLayout(cn) ==
    Concat([c \in 1..Len(cn) |->
               IF CopyNumber(cn, c - 1, 0) > 0
               THEN [i \in 1..CopyNumber(cn, c - 1, 0) |-> c - 1]
               ELSE <<>>])

\* mutant of KeepsCluster: a decreasing cluster is kept once more
KeepsCluster_atmost(c, cn, p, assigned) ==
    /\ c # NoCluster
    /\ \/ c \notin Decreasing(cn, p)
       \/ assigned[c + 1] <= CopyNumber(cn, c, p)

\* line 659
KeepsCluster(c, cn, p, assigned) ==
    /\ c # NoCluster
    /\ \/ c \notin Decreasing(cn, p)
       \/ assigned[c + 1] < CopyNumber(cn, c, p)

\* lines 656-664: for h in range(ploidy)
RECURSIVE KeepLoop(_, _, _, _, _, _)
KeepLoop(hps, cn, p, h, assigned, open_haps) ==
    IF h >= Len(hps)
    THEN [haps |-> hps, assigned |-> assigned, open_haps |-> open_haps]
    ELSE LET c == At(At(hps, h), p - 1)
         IN  IF KeepsCluster(c, cn, p, assigned)
             THEN KeepLoop(SetHap(hps, h, p, c), cn, p, h + 1,
                           [assigned EXCEPT ![c + 1] = @ + 1], open_haps)
             ELSE KeepLoop(hps, cn, p, h + 1, assigned, Append(open_haps, h))

\* lines 668-669: the clusters that still need a slot, in the order of the loops
Unmatched(cn, p, assigned) ==
    Concat([c \in 1..Len(cn) |->
               IF CopyNumber(cn, c - 1, p) - assigned[c] > 0
               THEN [x \in 1..(CopyNumber(cn, c - 1, p) - assigned[c]) |-> c - 1]
               ELSE <<>>])

\* lines 667-671: haps[open_haps[i]][pos] = c
RECURSIVE AssignLoop(_, _, _, _, _)
AssignLoop(hps, p, open_haps, unmatched, i) ==
    IF i >= Len(unmatched) THEN hps
    ELSE AssignLoop(SetHap(hps, At(open_haps, i), p, At(unmatched, i)),
                    p, open_haps, unmatched, i + 1)

\* lines 676-700: what haplotype h adds to blocking_clusters
BlockingOf(hps, cn, p, h, inc_dis, dec_dis) ==
    LET c == At(At(hps, h), p)
        before == At(At(hps, h), p - 1)
    IN  IF before = c \/ c = NoCluster \/ before = NoCluster THEN 0
        ELSE IF CopyNumber(cn, c, p - 1) = 0 THEN 1
        ELSE IF c \in Increasing(cn, p) /\ c \in inc_dis THEN 1 + Len(hps)
        ELSE IF c \in Decreasing(cn, p) /\ c \in dec_dis THEN 1 + Len(hps)
        ELSE 1

\* lines 674-700
BlockingClusters(hps, cn, p, inc_dis, dec_dis) ==
    SeqSum([h \in 1..Len(hps) |-> BlockingOf(hps, cn, p, h - 1, inc_dis, dec_dis)])

\* lines 719-723: one block per cut position
ReturnedBlocks(hps, cuts) ==
    [b \in 1..Len(cuts) |->
        [h \in DOMAIN hps |->
            Slice(hps[h], IF b = 1 THEN 0 ELSE cuts[b - 1], cuts[b])]]

\* the copy numbers of num_clust clusters over n positions
CopyNumbers(num_clust, n, k) ==
    {cn \in [1..num_clust -> [1..n -> 0..k]] :
        \A p \in 1..n : SeqSum([c \in 1..num_clust |-> cn[c][p]]) <= k}

InitBlocks ==
    /\ pc = "layout_start"
    /\ ploidy \in 2..MaxPloidy
    /\ num_vars \in 1..BlockVars
    /\ \E num_clust \in 1..BlockClusters :
          copynumbers \in CopyNumbers(num_clust, num_vars, ploidy)
    /\ single_hap_cuts \in BOOLEAN
    /\ block_haps = <<>>
    /\ block_pos = 0
    /\ increase_disallowed = {}
    /\ decrease_disallowed = {}
    /\ cut_positions = <<>>
    /\ cluster_blocks = <<>>
    /\ ThreadIdle /\ CompIdle /\ SliceIdle /\ MergeIdle /\ RefineIdle

\* lines 622-649: the layout of position 0
LayoutFirst ==
    /\ pc = "layout_start"
    /\ LET first == FirstLayout(copynumbers)
       IN  IF Len(first) <= ploidy
           THEN /\ block_haps' = [h \in 1..ploidy |-> [p \in 1..num_vars |->
                                     IF p = 1 /\ h <= Len(first) THEN first[h]
                                     ELSE NoCluster]]
                /\ block_pos' = 1
                /\ pc' = "layout"
           ELSE /\ block_haps' = [h \in 1..ploidy |-> [p \in 1..num_vars |->
                                     IF p = 1 THEN first[h] ELSE NoCluster]]
                /\ block_pos' = 0
                /\ pc' = "error"
    /\ UNCHANGED <<copynumbers, increase_disallowed, decrease_disallowed, single_hap_cuts,
                   cut_positions, cluster_blocks>>
    /\ UNCHANGED <<threadvars, ploidy, num_vars, compvars, slicevars, mergevars, refinevars>>

\* lines 652-715: one round of the loop over the positions
LayoutPosition ==
    /\ pc = "layout"
    /\ block_pos < num_vars
    /\ LET kept == KeepLoop(block_haps, copynumbers, block_pos, 0,
                            [c \in 1..Len(copynumbers) |-> 0], <<>>)
           unmatched == Unmatched(copynumbers, block_pos, kept.assigned)
       IN  IF Len(unmatched) > Len(kept.open_haps)
           THEN /\ block_haps' = kept.haps
                /\ pc' = "error"
                /\ UNCHANGED <<block_pos, increase_disallowed, decrease_disallowed,
                               cut_positions>>
           ELSE /\ block_haps' = AssignLoop(kept.haps, block_pos, kept.open_haps, unmatched, 0)
                /\ LET blocking_clusters ==
                           BlockingClusters(block_haps', copynumbers, block_pos,
                                            increase_disallowed, decrease_disallowed)
                   IN  IF (blocking_clusters <= 1 /\ ~single_hap_cuts) \/ blocking_clusters = 0
                       THEN /\ decrease_disallowed' = decrease_disallowed \cup
                                   {c \in Increasing(copynumbers, block_pos) :
                                       CopyNumber(copynumbers, c, block_pos - 1) > 0}
                            /\ increase_disallowed' = increase_disallowed \cup
                                   {c \in Decreasing(copynumbers, block_pos) :
                                       CopyNumber(copynumbers, c, block_pos) > 0}
                            /\ cut_positions' = cut_positions
                       ELSE /\ cut_positions' = Append(cut_positions, block_pos)
                            /\ decrease_disallowed' = {}
                            /\ increase_disallowed' = {}
                /\ block_pos' = block_pos + 1
                /\ pc' = pc
    /\ UNCHANGED <<copynumbers, single_hap_cuts, cluster_blocks>>
    /\ UNCHANGED <<threadvars, ploidy, num_vars, compvars, slicevars, mergevars, refinevars>>

\* lines 717-725
ReturnBlocks ==
    /\ pc = "layout"
    /\ block_pos >= num_vars
    /\ cluster_blocks' = ReturnedBlocks(block_haps, cut_positions)
    /\ pc' = "blocks_returned"
    /\ UNCHANGED <<blockvars, cut_positions>>
    /\ UNCHANGED <<threadvars, ploidy, num_vars, compvars, slicevars, mergevars, refinevars>>

NextBlocks == LayoutFirst \/ LayoutPosition \/ ReturnBlocks

SpecBlocks == InitBlocks /\ [][NextBlocks]_vars

(***************************************************************************)
(* scripts/whatshap.py: CoverageMonitor and slice_reads                    *)
(***************************************************************************)
\* CoverageMonitor(length)
CoverageMonitor(length) == [i \in 1..length |-> 0]

\* mutant of max_coverage_in_range: the last index of the range is left out
max_coverage_in_range_short(cov, begin, end) ==
    Max({cov[i + 1] : i \in begin..(end - 2)} \cup {0})

\* max(self.coverage[begin:end]); begin < end for every read that is sliced
max_coverage_in_range(cov, begin, end) == Max({cov[i + 1] : i \in begin..(end - 1)})

\* add_read(begin, end)
add_read(cov, begin, end) ==
    [i \in DOMAIN cov |-> IF begin <= i - 1 /\ i - 1 < end THEN cov[i] + 1 ELSE cov[i]]

\* begin = position_to_index[read[0].position]
ReadBegin(rs, read) == PosIndex(rs, read[1].position)

\* end = position_to_index[read[-1].position] + 1
ReadEnd(rs, read) == PosIndex(rs, read[Len(read)].position) + 1

\* mutant of FitsSlice: "<=" instead of "<"
FitsSlice_atmost(cov, begin, end, limit) == max_coverage_in_range(cov, begin, end) <= limit

\* line 277: does the read fit into the slice?
FitsSlice(cov, begin, end, limit) == max_coverage_in_range(cov, begin, end) < limit

\* reads.subset(slices[0]): the reads of the index set, in read set order
ReadSubset(rs, indexset) ==
    LET Keep(i) == i \in indexset
        kept == SelectSeq([i \in 1..Len(rs) |-> i - 1], Keep)
    IN  [i \in DOMAIN kept |-> At(rs, kept[i])]

\* reads over every non-empty set of positions, reads of one variant included
SliceReadPool ==
    {[i \in 1..Cardinality(S) |-> [position |-> SortedSeq(S)[i], allele |-> 0]] :
        S \in (SUBSET GenomePositions) \ {{}}}

\* random.shuffle(shuffled_indices): every order of the indices 0..n-1
Shuffles(n) == {sh \in [1..n -> 0..(n - 1)] : \A i, j \in 1..n : i # j => sh[i] # sh[j]}

InitSlice ==
    /\ pc = "next_read"
    /\ reads \in [1..SliceReads -> SliceReadPool]
    /\ max_coverage \in 1..SliceMaxCoverage
    /\ shuffled_indices \in Shuffles(SliceReads)
    /\ slices = <<{}>>
    /\ slice_coverages = <<CoverageMonitor(NumVars(reads))>>
    /\ slice_id = 0
    /\ skipped_reads = 0
    /\ sliced_reads = <<>>
    /\ ploidy = 2
    /\ num_vars = NumVars(reads)
    /\ cut_positions = <<>>
    /\ cluster_blocks = <<>>
    /\ ThreadIdle /\ CompIdle /\ MergeIdle /\ RefineIdle /\ BlockIdle

\* lines 264-274: take the next index; a read of one variant is skipped
NextRead ==
    /\ pc = "next_read"
    /\ shuffled_indices # <<>>
    /\ LET read == At(reads, Head(shuffled_indices))
       IN  IF Len(read) < 2
           THEN /\ skipped_reads' = skipped_reads + 1
                /\ shuffled_indices' = Tail(shuffled_indices)
                /\ UNCHANGED <<pc, slice_id>>
           ELSE /\ slice_id' = 0
                /\ pc' = "search"
                /\ UNCHANGED <<skipped_reads, shuffled_indices>>
    /\ UNCHANGED <<reads, max_coverage, slices, slice_coverages, sliced_reads>>
    /\ UNCHANGED <<threadvars, ploidy, num_vars, cut_positions, cluster_blocks,
                   compvars, mergevars, refinevars, blockvars>>

\* lines 275-286: one round of the "while True" loop
TrySlice ==
    /\ pc = "search"
    /\ LET index == Head(shuffled_indices)
           begin == ReadBegin(reads, At(reads, index))
           end == ReadEnd(reads, At(reads, index))
       IN  IF FitsSlice(At(slice_coverages, slice_id), begin, end, max_coverage)
           THEN /\ slice_coverages' =
                       [slice_coverages EXCEPT
                           ![slice_id + 1] = add_read(At(slice_coverages, slice_id), begin, end)]
                /\ slices' = [slices EXCEPT ![slice_id + 1] = @ \cup {index}]
                /\ shuffled_indices' = Tail(shuffled_indices)
                /\ pc' = "next_read"
                /\ UNCHANGED slice_id
           ELSE /\ slice_id' = slice_id + 1
                /\ IF slice_id' = Len(slices)
                   THEN /\ slices' = Append(slices, {})
                        /\ slice_coverages' =
                               Append(slice_coverages, CoverageMonitor(NumVars(reads)))
                   ELSE UNCHANGED <<slices, slice_coverages>>
                /\ UNCHANGED <<pc, shuffled_indices>>
    /\ UNCHANGED <<reads, max_coverage, skipped_reads, sliced_reads>>
    /\ UNCHANGED <<threadvars, ploidy, num_vars, cut_positions, cluster_blocks,
                   compvars, mergevars, refinevars, blockvars>>

\* line 300
ReturnSlice ==
    /\ pc = "next_read"
    /\ shuffled_indices = <<>>
    /\ sliced_reads' = ReadSubset(reads, slices[1])
    /\ pc' = "sliced"
    /\ UNCHANGED <<reads, max_coverage, shuffled_indices, slices, slice_coverages,
                   slice_id, skipped_reads>>
    /\ UNCHANGED <<threadvars, ploidy, num_vars, cut_positions, cluster_blocks,
                   compvars, mergevars, refinevars, blockvars>>

NextSlice == NextRead \/ TrySlice \/ ReturnSlice

SpecSlice == InitSlice /\ [][NextSlice]_vars

\* the loops of slice_reads run on: every enabled step is eventually taken
SpecSliceFair == SpecSlice /\ WF_vars(NextSlice)

(***************************************************************************)
(* scripts/whatshap.py: BamReader._merge_pair                              *)
(***************************************************************************)
\* mutant of MergeOverlap: read2's variant wins on equal qualities
MergeOverlap_second(v1, v2) ==
    IF v1.allele = v2.allele
    THEN [position |-> v1.position, allele |-> v1.allele, quality |-> v1.quality + v2.quality]
    ELSE IF v1.quality > v2.quality THEN v1 ELSE v2

\* lines 202-212: the variant added for a position both reads carry
MergeOverlap(v1, v2) ==
    IF v1.allele = v2.allele
    THEN [position |-> v1.position, allele |-> v1.allele, quality |-> v1.quality + v2.quality]
    ELSE IF v1.quality >= v2.quality THEN v1 ELSE v2

\* the reads of a pair: variants at strictly increasing positions
PairReads ==
    UNION {[1..Cardinality(S) -> [position : S, allele : {0, 1}, quality : 1..MaxQuality]] :
              S \in SUBSET GenomePositions}

SortedPairReads ==
    {r \in PairReads : \A i \in 1..(Len(r) - 1) : r[i].position < r[i + 1].position}

InitMerge ==
    /\ pc = "merge_start"
    /\ read1 \in SortedPairReads
    /\ read2 \in SortedPairReads
    /\ i1 = 0
    /\ i2 = 0
    /\ result = <<>>
    /\ ploidy = 2
    /\ num_vars = 0
    /\ cut_positions = <<>>
    /\ cluster_blocks = <<>>
    /\ ThreadIdle /\ CompIdle /\ SliceIdle /\ RefineIdle /\ BlockIdle

\* lines 168-175: an empty read2 is false, read1 is returned as it is
StartMerge ==
    /\ pc = "merge_start"
    /\ IF read2 # <<>>
       THEN /\ result' = <<>>
            /\ i1' = 0
            /\ i2' = 0
            /\ pc' = "merge_loop"
       ELSE /\ result' = read1
            /\ pc' = "merged"
            /\ UNCHANGED <<i1, i2>>
    /\ UNCHANGED <<read1, read2>>
    /\ UNCHANGED <<threadvars, ploidy, num_vars, cut_positions, cluster_blocks,
                   compvars, slicevars, refinevars, blockvars>>

\* lines 183-214: one round of the while loop
MergeStep ==
    /\ pc = "merge_loop"
    /\ i1 < Len(read1) \/ i2 < Len(read2)
    /\ IF i1 = Len(read1)
       THEN /\ result' = Append(result, At(read2, i2))
            /\ i2' = i2 + 1
            /\ i1' = i1
       ELSE IF i2 = Len(read2)
       THEN /\ result' = Append(result, At(read1, i1))
            /\ i1' = i1 + 1
            /\ i2' = i2
       ELSE IF At(read2, i2).position < At(read1, i1).position
       THEN /\ result' = Append(result, At(read2, i2))
            /\ i2' = i2 + 1
            /\ i1' = i1
       ELSE IF At(read2, i2).position > At(read1, i1).position
       THEN /\ result' = Append(result, At(read1, i1))
            /\ i1' = i1 + 1
            /\ i2' = i2
       ELSE /\ result' = Append(result, MergeOverlap(At(read1, i1), At(read2, i2)))
            /\ i1' = i1 + 1
            /\ i2' = i2 + 1
    /\ UNCHANGED <<pc, read1, read2>>
    /\ UNCHANGED <<threadvars, ploidy, num_vars, cut_positions, cluster_blocks,
                   compvars, slicevars, refinevars, blockvars>>

\* line 215
ReturnMerged ==
    /\ pc = "merge_loop"
    /\ ~(i1 < Len(read1) \/ i2 < Len(read2))
    /\ pc' = "merged"
    /\ UNCHANGED <<read1, read2, i1, i2, result>>
    /\ UNCHANGED <<threadvars, ploidy, num_vars, cut_positions, cluster_blocks,
                   compvars, slicevars, refinevars, blockvars>>

NextMerge == StartMerge \/ MergeStep \/ ReturnMerged

SpecMerge == InitMerge /\ [][NextMerge]_vars

(***************************************************************************)
(* Properties of subset_clusters                                           *)
(***************************************************************************)
\* cost of a sequence of tuples, one per column from column 0 on: its column
\* costs plus switch_cost for every slot that changes between two columns
PathCost(pth) ==
    SeqSum([p \in DOMAIN pth |-> col_cost(coverage, CostScale(readset), p - 1, pth[p])])
    + SeqSum([p \in 1..(Len(pth) - 1) |-> tr_cost(CostScale(readset), pth[p], pth[p + 1])])

\* every sequence that picks one permutation of a tuple of geno_map[p] for the
\* columns 0..n-1
RECURSIVE AllPaths(_)
AllPaths(n) ==
    IF n = 0 THEN {<<>>}
    ELSE {Append(s, t) : s \in AllPaths(n - 1), t \in Range(ConfTuples(geno_map[n]))}

\* the last column (1-based) of the scoring table with a finite cost
LastFiniteColumn ==
    Max({p \in DOMAIN scoring :
            \E t \in DOMAIN scoring[p] : scoring[p][t][1] < INT_MAX * CostScale(readset)})

\* C1: the cost the scoring table gives for the backtraced path is the sum of
\* its column costs and transition costs, and no sequence of permutations over
\* the columns of the path, or over the columns up to the last one with a
\* finite cost, is cheaper
C1_PathIsOptimal ==
    pc = "cuts" =>
        /\ Min({scoring[start_col + 1][t][1] : t \in DOMAIN scoring[start_col + 1]})
               = PathCost(path)
        /\ \A s \in AllPaths(start_col + 1) : PathCost(s) >= PathCost(path)
        /\ \A s \in AllPaths(LastFiniteColumn) : PathCost(s) >= PathCost(path)

C1_Witness ==
    /\ pc = "cuts"
    /\ Len(path) = 3
    /\ path[1] # path[2]
    /\ path[2] = path[3]
    /\ \E s \in AllPaths(3) : PathCost(s) > PathCost(path)

\* C2: every tuple of the path is a permutation of a tuple of geno_map at its
\* position, uses only clusters kept at that position, and the predecessor
\* index stored for it is an index of the permutation list of the column before
C2_PathInTuples ==
    pc = "cuts" =>
        /\ Len(path) = start_col + 1
        /\ \A p \in DOMAIN path :
              /\ \E i \in DOMAIN geno_map[p] : SameMultiset(path[p], geno_map[p][i])
              /\ Range(path[p]) \subseteq Range(cov_map[p])
              /\ p > 1 =>
                    LET conf == ConfTuples(geno_map[p])
                        before == ConfTuples(geno_map[p - 1])
                        idx == CHOOSE t \in DOMAIN conf : conf[t] = path[p]
                        pred == scoring[p][idx][2]
                    IN  /\ pred >= 0
                        /\ pred < Len(before)
                        /\ before[pred + 1] = path[p - 1]

C2_Witness ==
    /\ pc = "cuts"
    /\ Len(path) = 3
    /\ Len(geno_map[2]) >= 2
    /\ path[1] # path[2]

\* C5: the character of haplotype h at index p is the consensus allele, at
\* position p, of the cluster the path has in slot h at p; it is "n" exactly
\* where no cluster is assigned; looking up the consensus with the block's
\* offset never fails
C5_HaplotypeIsConsensus ==
    /\ pc = "error" => cluster_blocks = <<>>
    /\ pc = "done" =>
          \A h \in 1..ploidy :
              /\ Len(haplotypes[h]) = Len(path)
              /\ \A p \in DOMAIN path :
                    /\ path[p][h] \in DOMAIN consensus[p]
                    /\ haplotypes[h][p] = AlleleString(consensus[p][path[p][h]])
                    /\ (haplotypes[h][p] = "n") <=> (path[p][h] = NoCluster)

C5_Witness ==
    /\ pc = "done"
    /\ Len(path) = 3
    /\ cut_positions = <<1>>
    /\ \E h \in 1..ploidy : haplotypes[h][2] # haplotypes[h][3]
    /\ \E c \in DOMAIN consensus[2] \cap DOMAIN consensus[3] : consensus[2][c] # consensus[3][c]

\* C6: every haplotype string has one character per variant position
C6_HaplotypeLength ==
    pc = "done" => \A h \in 1..ploidy : Len(haplotypes[h]) = num_vars

(***************************************************************************)
(* Properties of the tuple enumeration                                     *)
(***************************************************************************)
AllMultisets(p) ==
    {t \in [1..ploidy -> Range(cov_map[p])] : \A i \in 1..(ploidy - 1) : t[i] <= t[i + 1]}

TupleSum(p, t) == SeqSum([i \in DOMAIN t |-> consensus[p][t[i]]])

TupleDiff(p, t) == IF TupleSum(p, t) >= genotypes[p] THEN TupleSum(p, t) - genotypes[p]
                   ELSE genotypes[p] - TupleSum(p, t)

HardSet(p) == {t \in AllMultisets(p) : TupleSum(p, t) = genotypes[p]}

IsLexSorted(list) == \A i \in 1..(Len(list) - 1) : LexLess(list[i], list[i + 1])

\* C3: where a multiset over the kept clusters has the consensus sum g(p),
\* geno_map[p] is the sorted list of exactly the multisets with that sum
C3_HardTuples ==
    pc = "dp" =>
        \A p \in DOMAIN geno_map :
            HardSet(p) # {} =>
                /\ Range(geno_map[p]) = HardSet(p)
                /\ IsLexSorted(geno_map[p])

C3_Witness ==
    /\ pc = "dp"
    /\ ploidy = 3
    /\ Cardinality(HardSet(1)) >= 2
    /\ HardSet(1) # AllMultisets(1)

\* C4: where no multiset has the consensus sum g(p), geno_map[p] holds exactly
\* the multisets whose distance to g(p) is minimal, so it is empty only where
\* no cluster is kept
C4_SoftTuplesMinimal ==
    pc = "dp" =>
        \A p \in DOMAIN geno_map :
            (HardSet(p) = {} /\ AllMultisets(p) # {}) =>
                /\ Range(geno_map[p]) =
                       {t \in AllMultisets(p) :
                           TupleDiff(p, t) = Min({TupleDiff(p, u) : u \in AllMultisets(p)})}
                /\ geno_map[p] # <<>>

(***************************************************************************)
(* Properties of run_polyphase                                             *)
(***************************************************************************)
StrictlyIncreasing(s) == \A i \in 1..(Len(s) - 1) : s[i] < s[i + 1]

C8_CutsIncreasingInRange ==
    /\ \A b \in DOMAIN blockwise_cut_positions :
          /\ StrictlyIncreasing(blockwise_cut_positions[b])
          /\ \A c \in Range(blockwise_cut_positions[b]) : 0 <= c /\ c < BlockSize(b) - 1
    /\ pc = "aggregated" =>
          /\ StrictlyIncreasing(cut_positions)
          /\ \A c \in Range(cut_positions) : 0 <= c /\ c < num_vars - 1

C8_Witness ==
    /\ pc = "aggregated"
    /\ Len(block_starts) >= 2
    /\ Len(blockwise_cut_positions[1]) >= 1
    /\ Len(blockwise_cut_positions[2]) >= 1

\* C9: the aggregated cut positions contain the start of every block but the
\* first
C9_BoundaryIsCut ==
    pc = "aggregated" =>
        \A i \in 2..Len(block_starts) : block_starts[i] \in Range(cut_positions)

\* C10: index block_starts[i]+k of an aggregated haplotype holds what block i
\* produced for its k-th position
C10_AggregatedAligned ==
    pc = "aggregated" =>
        \A h \in 1..ploidy : \A b \in DOMAIN block_starts : \A k \in 0..(BlockSize(b) - 1) :
            /\ k < Len(blockwise_haplotypes[b][h])
            /\ block_starts[b] + k < Len(haplotypes[h])
            /\ At(haplotypes[h], block_starts[b] + k) = At(blockwise_haplotypes[b][h], k)

\* C11: in the aggregated threading every cluster id of block b is its
\* block-local id plus the number of clusters of the blocks before b; the
\* aggregated clustering holds, at that id, the block-local cluster with every
\* read id raised by the number of reads of the blocks before b; ids of
\* different blocks differ and the aggregated clusters are pairwise disjoint
C11_GlobalIds ==
    pc = "aggregated" =>
        /\ Len(threading) = OffsetBefore(blockwise_paths, Len(block_starts) + 1)
        /\ Len(clustering) = OffsetBefore(blockwise_clustering, Len(block_starts) + 1)
        /\ \A b \in DOMAIN blockwise_paths : \A p \in DOMAIN blockwise_paths[b] :
           \A h \in 1..ploidy :
              LET local == blockwise_paths[b][p][h]
                  global == threading[OffsetBefore(blockwise_paths, b) + p][h]
              IN  /\ global = local + OffsetBefore(blockwise_clustering, b)
                  /\ global < Len(clustering)
                  /\ At(clustering, global) =
                         [k \in DOMAIN At(blockwise_clustering[b], local) |->
                             At(blockwise_clustering[b], local)[k]
                                 + OffsetBefore(block_readsets, b)]
        /\ \A b1, b2 \in DOMAIN blockwise_clustering :
              b1 # b2 =>
                  \A c1 \in DOMAIN blockwise_clustering[b1] :
                  \A c2 \in DOMAIN blockwise_clustering[b2] :
                      c1 + OffsetBefore(blockwise_clustering, b1)
                          # c2 + OffsetBefore(blockwise_clustering, b2)
        /\ \A i, j \in DOMAIN clustering :
              i # j => Range(clustering[i]) \cap Range(clustering[j]) = {}

C11_Witness ==
    /\ pc = "aggregated"
    /\ Len(block_starts) >= 2
    /\ Len(blockwise_clustering[1]) = 2
    /\ Len(blockwise_clustering[2]) = 2
    /\ \E p \in DOMAIN blockwise_paths[2] : blockwise_paths[2][p][1] = 1
    /\ Len(clustering) >= 4

(***************************************************************************)
(* Properties of the backtrace                                             *)
(***************************************************************************)
Finite(entry) == entry[1] < INT_MAX * CostScale(readset)

HasFinite == \E p \in DOMAIN scoring : \E t \in DOMAIN scoring[p] : Finite(scoring[p][t])

\* C12: when some column has a finite cost, find_backtracing_start returns
\* the index of the last such column
C12_StartIsLastFinite ==
    (pc # "backtrace" /\ HasFinite) =>
        find_backtracing_start(scoring, num_vars, INT_MAX * CostScale(readset))
            = <<LastFiniteColumn - 1>>

\* C13: when no column has a finite cost, the backtrace ends without an error
\* and with an empty path and no cut positions
C13_NothingToEmit ==
    (pc # "backtrace" /\ ~HasFinite) =>
        /\ pc # "error"
        /\ path = <<>>
        /\ cut_positions = <<>>

\* C14: the last tuple of the path is the ordering of the last column with a
\* finite cost that has the minimum cost there, the first one among equals
C14_EndpointIsArgmin ==
    pc = "cuts" =>
        LET col == scoring[LastFiniteColumn]
            conf == ConfTuples(geno_map[LastFiniteColumn])
        IN  /\ Len(path) = LastFiniteColumn
            /\ \E t \in DOMAIN col :
                  /\ \A u \in DOMAIN col : col[t][1] <= col[u][1]
                  /\ \A u \in 1..(t - 1) : col[u][1] > col[t][1]
                  /\ path[Len(path)] = conf[t]

(***************************************************************************)
(* Properties of the coverage map                                          *)
(***************************************************************************)
\* the clusters with a read that carries a variant at position index p
CoveringClusters(p) ==
    {c \in 0..(Len(clustering) - 1) :
        \E k \in DOMAIN At(clustering, c) : \E i \in DOMAIN At(readset, At(clustering, c)[k]) :
            At(readset, At(clustering, c)[k])[i].position = At(get_positions(readset), p)}

ClusterSize(c) == Len(At(clustering, c))

\* C15: cov_map[p] holds min(8, number of covering clusters) covering
\* clusters, each once; every kept cluster is larger than every dropped one,
\* or as large and of smaller id
C15_TopEightKept ==
    pc = "positions" =>
        \A p \in 0..(num_vars - 1) :
            LET kept == Range(At(cov_map, p))
                raw == CoveringClusters(p)
            IN  /\ Len(At(cov_map, p)) = Cardinality(kept)
                /\ kept \subseteq raw
                /\ Cardinality(kept) = Min({TopClusters, Cardinality(raw)})
                /\ \A c \in kept : \A d \in raw \ kept :
                      \/ ClusterSize(c) > ClusterSize(d)
                      \/ ClusterSize(c) = ClusterSize(d) /\ c < d

C15_Witness ==
    /\ pc = "positions"
    /\ \E p \in 0..(num_vars - 1) :
          LET kept == Range(At(cov_map, p))
              dropped == CoveringClusters(p) \ kept
          IN  /\ Cardinality(kept) = TopClusters
              /\ \E c \in kept : \E d \in dropped : c > d
              /\ \E c \in kept : \E d \in dropped : ClusterSize(c) = ClusterSize(d)
    /\ \E p \in 0..(num_vars - 1) :
          /\ Len(At(cov_map, p)) < TopClusters
          /\ Len(At(cov_map, p)) > 0

(***************************************************************************)
(* Properties of consensus, coverage and the decoding lists                *)
(***************************************************************************)
\* the variants of the reads of cluster c at position index p with allele a,
\* as (read, variant) pairs
AllelesAt(c, p, a) ==
    {<<k, i>> \in (DOMAIN At(clustering, c)) \X (1..NumPositions) :
        /\ i \in DOMAIN At(readset, At(clustering, c)[k])
        /\ At(readset, At(clustering, c)[k])[i].position = At(get_positions(readset), p)
        /\ At(readset, At(clustering, c)[k])[i].allele = a}

\* C16: consensus[p] is defined exactly for the clusters of cov_map[p]; it is
\* 1 where more reads of the cluster carry allele 1 than allele 0 at p, and 0
\* where allele 0 is at least as frequent
C16_ConsensusIsMajority ==
    pc = "geno_map" =>
        /\ Len(consensus) = num_vars
        /\ \A p \in 0..(num_vars - 1) :
              /\ DOMAIN At(consensus, p) = Range(At(cov_map, p))
              /\ \A c \in DOMAIN At(consensus, p) :
                    LET n0 == Cardinality(AllelesAt(c, p, 0))
                        n1 == Cardinality(AllelesAt(c, p, 1))
                    IN  /\ n0 + n1 >= 1
                        /\ n1 > n0 => At(consensus, p)[c] = 1
                        /\ n0 >= n1 => At(consensus, p)[c] = 0

C16_Witness ==
    /\ pc = "geno_map"
    /\ \E p \in 0..(num_vars - 1) : \E c \in DOMAIN At(consensus, p) :
          /\ Cardinality(AllelesAt(c, p, 0)) = 1
          /\ Cardinality(AllelesAt(c, p, 1)) = 1
          /\ At(consensus, p)[c] = 0
    /\ \E p \in 0..(num_vars - 1) : \E c \in DOMAIN At(consensus, p) :
          At(consensus, p)[c] = 1
    /\ \E p \in 0..(num_vars - 1) :
          (0..(Len(clustering) - 1)) \ DOMAIN At(consensus, p) # {}

\* C17: once the coverage map is built for a clustering with at least one
\* cluster, every position of the read set has a cluster in cov_map
C17_CoveredHasCluster ==
    pc = "consensus" => \A p \in DOMAIN cov_map : cov_map[p] # <<>>

\* the tuples of geno_map[p] that the ordered tuple t is an ordering of
Owners(p, t) == {m \in DOMAIN geno_map[p] : SameMultiset(t, geno_map[p][m])}

\* C18: the list that decodes the indices of column p holds every ordering of
\* every tuple of geno_map[p] once, the orderings of an earlier tuple before
\* those of a later one and the orderings of one tuple in lexicographic
\* order; every tuple of the path is an entry of the list of its column
C18_DecodingList ==
    pc = "cuts" =>
        \A p \in DOMAIN geno_map :
            LET list == ConfTuples(geno_map[p])
            IN  /\ \A i, j \in DOMAIN list : i < j => list[i] # list[j]
                /\ \A i \in DOMAIN list : Cardinality(Owners(p, list[i])) = 1
                /\ \A m \in DOMAIN geno_map[p] :
                   \A t \in [1..ploidy -> Range(geno_map[p][m])] :
                      SameMultiset(t, geno_map[p][m]) => t \in Range(list)
                /\ \A i, j \in DOMAIN list :
                      i < j =>
                          LET mi == CHOOSE m \in Owners(p, list[i]) : TRUE
                              mj == CHOOSE m \in Owners(p, list[j]) : TRUE
                          IN  mi < mj \/ (mi = mj /\ LexLess(list[i], list[j]))
                /\ p \in DOMAIN path => path[p] \in Range(list)

C18_Witness ==
    /\ pc = "cuts"
    /\ \E p \in DOMAIN path :
          /\ Len(geno_map[p]) >= 2
          /\ Len(ConfTuples(geno_map[p])) > Len(geno_map[p])
          /\ \E m \in DOMAIN geno_map[p] : geno_map[p][m][1] = geno_map[p][m][2]
          /\ path[p][1] > path[p][2]

\* C19: when geno_map is empty at some position, subset_clusters does not
\* fail and the path has an entry for every position with a tuple, before and
\* after the empty one
C19_SplitAtEmptyTuples ==
    (/\ pc \in {"cuts", "blocks", "done", "error"}
     /\ geno_map # <<>>
     /\ \E p \in DOMAIN geno_map : geno_map[p] = <<>>) =>
        /\ pc # "error"
        /\ \A q \in DOMAIN geno_map : geno_map[q] # <<>> => q <= Len(path)

\* C20: the counter that subset_clusters prints is the number of positions
\* where no tuple has the genotype's allele sum
C20_FallbackCounted ==
    pc = "dp" =>
        counter = Cardinality({p \in DOMAIN geno_map : HardSet(p) = {}})

(***************************************************************************)
(* Properties of slice_reads                                               *)
(***************************************************************************)
\* the reads of the list rs that cover index idx between their first and
\* their last variant
PhysicalCoverage(rs, idx) ==
    Cardinality({r \in DOMAIN rs :
        /\ PosIndex(reads, rs[r][1].position) <= idx
        /\ idx <= PosIndex(reads, rs[r][Len(rs[r])].position)})

\* C21: in every slice, at every moment, at most max_coverage reads cover any
\* index, and the same holds for the read set that is returned
C21_CoverageBounded ==
    /\ \A s \in DOMAIN slices : \A idx \in 0..(NumVars(reads) - 1) :
          PhysicalCoverage(ReadSubset(reads, slices[s]), idx) <= max_coverage
    /\ pc = "sliced" =>
          /\ sliced_reads = ReadSubset(reads, slices[1])
          /\ \A idx \in 0..(NumVars(reads) - 1) :
                PhysicalCoverage(sliced_reads, idx) <= max_coverage

C21_Witness ==
    /\ pc = "sliced"
    /\ max_coverage = 2
    /\ Len(slices) >= 2
    /\ Len(sliced_reads) = 2
    /\ \E idx \in 0..(NumVars(reads) - 1) : PhysicalCoverage(sliced_reads, idx) = 2

\* the largest number of reads of the index set that cover one index of the
\* span of the read
SpanCoverage(indexset, read) ==
    Max({PhysicalCoverage(ReadSubset(reads, indexset), idx) :
            idx \in ReadBegin(reads, read)..(ReadEnd(reads, read) - 1)})

\* C30: slice_reads comes to its end; a read that is placed goes into the
\* first slice whose coverage over the read's span is below max_coverage and
\* into no other; only the last slice can be empty, and only while the read
\* it was created for is being placed
C30_SliceTerminates ==
    /\ <>(pc = "sliced")
    /\ [][(pc = "search" /\ pc' = "next_read") =>
              LET index == Head(shuffled_indices)
                  read == At(reads, index)
              IN  /\ index \in slices'[slice_id + 1]
                  /\ \A s \in DOMAIN slices' : s # slice_id + 1 => index \notin slices'[s]
                  /\ SpanCoverage(slices[slice_id + 1], read) < max_coverage
                  /\ \A s \in 1..slice_id : SpanCoverage(slices[s], read) >= max_coverage]_vars
    /\ [](\A s \in DOMAIN slices : slices[s] = {} => s = Len(slices))
    /\ []((pc # "search" /\ Len(slices) > 1) => \A s \in DOMAIN slices : slices[s] # {})
    /\ [](pc = "sliced" =>
              \A r \in DOMAIN reads :
                  Cardinality({s \in DOMAIN slices : r - 1 \in slices[s]})
                      = IF Len(reads[r]) >= 2 THEN 1 ELSE 0)

C30_Witness ==
    /\ pc = "sliced"
    /\ Len(slices) = 3
    /\ skipped_reads = 0

(***************************************************************************)
(* Properties of the cluster blocks of subset_clusters                     *)
(***************************************************************************)
\* the blocks of cluster ids that lines 259-271 build from the path
PathBlocks == ClusterBlocks(Haps(path, ploidy), cut_positions)

\* number of the block (from 1) whose slice holds position index i
BlockOfIndex(i) == 1 + Cardinality({j \in DOMAIN cut_positions : cut_positions[j] <= i})

\* C23: a recorded cut index i puts positions i and i+1 into different
\* cluster blocks; inside a cluster block every haplotype slot holds one
\* cluster id at all positions; no cluster block is empty
C23_CutEndsBlock ==
    pc = "done" =>
        /\ \A j \in DOMAIN cut_positions :
              BlockOfIndex(cut_positions[j]) # BlockOfIndex(cut_positions[j] + 1)
        /\ \A b \in DOMAIN PathBlocks : \A h \in DOMAIN PathBlocks[b] :
              \A m, n \in DOMAIN PathBlocks[b][h] : PathBlocks[b][h][m] = PathBlocks[b][h][n]
        /\ \A b \in DOMAIN PathBlocks : \A h \in DOMAIN PathBlocks[b] :
              PathBlocks[b][h] # <<>>

\* C25: the cluster blocks that subset_clusters returns hold the cluster ids
\* of the path: cluster_blocks[b][h][k] = path[offset_b + k][h]
C25_ClusterBlocksKept ==
    pc = "done" => cluster_blocks = PathBlocks

\* the slices of input read i in the block read sets, as pairs <<block, slice>>
SlicesOf(i) ==
    {bs \in UNION {{<<b, r>> : r \in DOMAIN block_readsets[b]} : b \in DOMAIN block_readsets} :
        LET name == block_readsets[bs[1]][bs[2]].name IN name[Len(name)] = i}

\* C26: after the reads are distributed, every variant of every read is in
\* exactly one slice of that read, every slice is non-empty and holds only
\* variants of the block whose read set it is in, and every block read set
\* has ext_block_starts[b+1] - ext_block_starts[b] distinct positions, so the
\* assertion of the block loop never fails
C26_ReadsDistributed ==
    /\ pc # "error"
    /\ pc = "blocks_split" =>
        /\ \A i \in 0..(Len(readset) - 1) : \A v \in DOMAIN At(readset, i) :
              Cardinality({bs \in SlicesOf(i) :
                  \E w \in DOMAIN block_readsets[bs[1]][bs[2]].variants :
                      block_readsets[bs[1]][bs[2]].variants[w] = At(readset, i)[v]}) = 1
        /\ \A b \in DOMAIN block_readsets : \A r \in DOMAIN block_readsets[b] :
              /\ block_readsets[b][r].variants # <<>>
              /\ \A q \in PositionsOfSlice(block_readsets[b][r]) :
                    /\ ext_block_starts[b] <= PosIndex(readset, q)
                    /\ PosIndex(readset, q) < ext_block_starts[b + 1]
        /\ \A b \in DOMAIN block_readsets :
              Cardinality(BlockPositions(block_readsets[b])) = BlockSize(b)

C26_Witness ==
    /\ pc = "blocks_split"
    /\ block_id = Len(block_readsets)
    /\ Len(block_starts) = 2
    /\ \E i \in 0..(Len(readset) - 1) : Cardinality(SlicesOf(i)) = 2
    /\ \E i \in 0..(Len(readset) - 1) : Cardinality(SlicesOf(i)) = 1

\* C27: the refinement loop ends only after a round without improvement (the
\* count of inconsistencies is 0 or not below the previous count) or after
\* 5 rounds, and a round with improvement is followed by another round
C27_RefineWhileImproving ==
    [][(pc = "refine_loop" /\ pc' = "refined") =>
          \/ runs_remaining = 0
          \/ ~(0 < new_inc_count /\ new_inc_count < last_inc_count)]_vars

\* the haplotype slots that hold cluster c at position p
SlotsOf(c, p) == {h \in DOMAIN block_haps : At(block_haps[h], p) = c}

\* C28: with copy numbers that sum to at most ploidy at every position, the
\* layout never runs out of open slots; at every processed position the
\* number of slots of a cluster is its copy number, and a slot keeps its
\* cluster from the position before when the cluster's copy number does not
\* decrease
C28_SlotsMatchCopyNumbers ==
    /\ pc # "error"
    /\ pc \in {"layout", "blocks_returned"} =>
        /\ \A p \in 0..(block_pos - 1) : \A c \in 0..(Len(copynumbers) - 1) :
              Cardinality(SlotsOf(c, p)) = CopyNumber(copynumbers, c, p)
        /\ \A p \in 1..(block_pos - 1) : \A h \in DOMAIN block_haps :
              LET c == At(block_haps[h], p - 1)
              IN  (/\ c # NoCluster
                   /\ CopyNumber(copynumbers, c, p) >= CopyNumber(copynumbers, c, p - 1)) =>
                      At(block_haps[h], p) = c

C28_Witness ==
    /\ pc = "blocks_returned"
    /\ num_vars = 3
    /\ ploidy = 3
    /\ Len(copynumbers) = 2
    /\ CopyNumber(copynumbers, 0, 0) = 2
    /\ CopyNumber(copynumbers, 0, 1) = 1
    /\ CopyNumber(copynumbers, 1, 0) = 1
    /\ CopyNumber(copynumbers, 1, 1) = 2
    /\ Cardinality(SlotsOf(1, 1)) = 2
    /\ cut_positions # <<>>

\* C29: calc_cluster_blocks returns len(cut_positions) + 1 blocks, and the
\* blocks of a haplotype, joined, are the num_vars entries of the haplotype
C29_BlocksCoverRange ==
    pc = "blocks_returned" =>
        /\ Len(cluster_blocks) = Len(cut_positions) + 1
        /\ \A h \in DOMAIN block_haps :
              Concat([b \in DOMAIN cluster_blocks |-> cluster_blocks[b][h]]) = block_haps[h]

\* the index of the first variant of the phase block of position index i
FirstOfBlock(cuts, i) ==
    LET before == {cuts[j] : j \in {j \in DOMAIN cuts : cuts[j] <= i}}
    IN  IF before = {} THEN 0 ELSE CHOOSE c \in before : \A e \in before : e <= c

\* C24: the components map built from the cut positions gives every variant
\* position a component, the genome position of the first variant of its
\* phase block, also before the first cut and when there is no cut
C24_ComponentsTotal ==
    pc = "components" =>
        \A i \in 0..(num_vars - 1) :
            /\ At(accessible_positions, i) \in DOMAIN components
            /\ components[At(accessible_positions, i)] =
                  At(accessible_positions, FirstOfBlock(cut_positions, i))

(***************************************************************************)
(* Properties of _merge_pair                                               *)
(***************************************************************************)
PositionsOf(read) == {read[i].position : i \in DOMAIN read}

VariantAt(read, position) == read[CHOOSE i \in DOMAIN read : read[i].position = position]

\* C22: every round of the merge loop moves at least one of the two indices
\* forward and none beyond its read; the merged read carries the positions of
\* both reads, each once, in increasing order; a position of both reads gets
\* the summed quality when the alleles agree and else the variant of higher
\* quality, read1's when the qualities are equal
C22_MergedUnion ==
    /\ [][(pc = "merge_loop" /\ pc' = "merge_loop") =>
              /\ i1' + i2' > i1 + i2
              /\ i1' <= Len(read1)
              /\ i2' <= Len(read2)]_vars
    /\ [](pc = "merged" =>
              /\ PositionsOf(result) = PositionsOf(read1) \cup PositionsOf(read2)
              /\ \A i \in 1..(Len(result) - 1) : result[i].position < result[i + 1].position
              /\ \A i \in DOMAIN result :
                    LET q == result[i].position
                    IN  IF q \in PositionsOf(read1) /\ q \in PositionsOf(read2)
                        THEN LET v1 == VariantAt(read1, q)
                                 v2 == VariantAt(read2, q)
                             IN  IF v1.allele = v2.allele
                                 THEN /\ result[i].allele = v1.allele
                                      /\ result[i].quality = v1.quality + v2.quality
                                 ELSE IF v1.quality >= v2.quality
                                      THEN result[i] = v1
                                      ELSE result[i] = v2
                        ELSE IF q \in PositionsOf(read1)
                             THEN result[i] = VariantAt(read1, q)
                             ELSE result[i] = VariantAt(read2, q))

C22_Witness ==
    /\ pc = "merged"
    /\ Len(result) = 3
    /\ Len(read1) = 2
    /\ Len(read2) = 3
    /\ \E q \in PositionsOf(read1) :
          /\ VariantAt(read1, q).allele # VariantAt(read2, q).allele
          /\ VariantAt(read1, q).quality = VariantAt(read2, q).quality
    /\ \E q \in PositionsOf(read1) :
          VariantAt(read1, q).allele = VariantAt(read2, q).allele

====
